---- MODULE Spec2Model ----
(***************************************************************************)
(* A model of mcp-arr: the REST client of src/src/arr-client.ts            *)
(* (ArrClient and its five subclasses) and the MCP server that dispatches  *)
(* tool calls to it (the server's source follows the README in            *)
(* src/README.md, from line 337 on).                                       *)
(*                                                                         *)
(* Text is modelled as a sequence of symbols (a symbol is a TLA+ string):  *)
(* the URL "http://s/" is <<"http://s", "/">>, the JSON text [1] is        *)
(* <<"[", "1", "]">>.  Template literals and + become \o.                  *)
(***************************************************************************)
EXTENDS Integers, Sequences, FiniteSets, TLC

(***************************************************************************)
(* Bounds of the model.                                                    *)
(***************************************************************************)
\* JSON values a remote system may answer have at most MaxNodes nodes
\* (a node is an atom, an array or an object).
MaxNodes == 3

(***************************************************************************)
(* JSON values, JSON.stringify and JSON.parse (response.json()).           *)
(* A value is a tagged tuple: <<"null">>, <<"num", n>>, <<"str", s>>,      *)
(* <<"arr", <<v1, ...>>>> or <<"obj", <<<<k1, v1>>, ...>>>> (members in    *)
(* insertion order, as a JavaScript object keeps them).                    *)
(***************************************************************************)
JNull == <<"null">>
JNum(n) == <<"num", n>>
JStr(s) == <<"str", s>>
JArr(elems) == <<"arr", elems>>
JObj(members) == <<"obj", members>>
JTrue == <<"true">>
JFalse == <<"false">>
\* JavaScript's undefined: no JSON value, but a value arguments and fields can have.
JUndefined == <<"undefined">>
\* A string value whose text is kept as a sequence of symbols (an error message).
JText(text) == <<"text", text>>

Nums == 0..9
KeyNames == <<"id", "name", "items", "tags", "path", "label">>
Atoms == {JNull, JNum(1), JStr("a")}

RECURSIVE JsonOfSize(_), ListsOfSize(_)
JsonOfSize(n) ==
    (IF n = 1 THEN Atoms ELSE {})
    \cup {JArr(l) : l \in ListsOfSize(n - 1)}
    \cup {JObj([i \in 1..Len(l) |-> <<KeyNames[i], l[i]>>]) : l \in ListsOfSize(n - 1)}
ListsOfSize(m) ==
    IF m = 0 THEN {<<>>}
    ELSE UNION {{<<v>> \o rest : v \in JsonOfSize(k), rest \in ListsOfSize(m - k)} : k \in 1..m}

JsonValues == UNION {JsonOfSize(n) : n \in 1..MaxNodes}

\* JSON.stringify(v) without indentation: a member whose value is undefined is
\* left out, an undefined array element is written null.
RECURSIVE Stringify(_), StringifyElems(_, _), StringifyMembers(_, _)
Stringify(v) ==
    CASE v[1] = "null" -> <<"null">>
      [] v[1] = "true" -> <<"true">>
      [] v[1] = "false" -> <<"false">>
      [] v[1] = "num" -> <<ToString(v[2])>>
      [] v[1] = "str" -> <<"\"", v[2], "\"">>
      [] v[1] = "arr" -> <<"[">> \o StringifyElems(v[2], 1) \o <<"]">>
      [] v[1] = "obj" ->
            <<"{">> \o StringifyMembers(SelectSeq(v[2], LAMBDA m : m[2][1] # "undefined"), 1) \o <<"}">>
StringifyElems(elems, i) ==
    IF i > Len(elems) THEN <<>>
    ELSE (IF i > 1 THEN <<",">> ELSE <<>>)
         \o (IF elems[i][1] = "undefined" THEN <<"null">> ELSE Stringify(elems[i]))
         \o StringifyElems(elems, i + 1)
StringifyMembers(members, i) ==
    IF i > Len(members) THEN <<>>
    ELSE (IF i > 1 THEN <<",">> ELSE <<>>)
         \o <<"\"", members[i][1], "\"", ":">> \o Stringify(members[i][2])
         \o StringifyMembers(members, i + 1)

Punctuation == {"[", "]", "{", "}", ",", ":", "\""}
NumTokens == {ToString(n) : n \in Nums}
ParseFail == [ok |-> FALSE, value |-> JNull, next |-> 0]
ParsedAt(v, n) == [ok |-> TRUE, value |-> v, next |-> n]
Tok(t, i) == IF i <= Len(t) THEN t[i] ELSE "<eof>"

\* JSON.parse by recursive descent: ParseValue(t, i) reads one value of text t
\* from position i and says where it ends.
RECURSIVE ParseValue(_, _), ParseElems(_, _, _), ParseMembers(_, _, _)
ParseValue(t, i) ==
    LET tok == Tok(t, i) IN
    CASE tok = "null" -> ParsedAt(JNull, i + 1)
      [] tok = "true" -> ParsedAt(JTrue, i + 1)
      [] tok = "false" -> ParsedAt(JFalse, i + 1)
      [] tok \in NumTokens -> ParsedAt(JNum(CHOOSE n \in Nums : ToString(n) = tok), i + 1)
      [] tok = "\"" ->
            IF Tok(t, i + 1) \notin (Punctuation \cup {"<eof>"}) /\ Tok(t, i + 2) = "\""
            THEN ParsedAt(JStr(t[i + 1]), i + 3)
            ELSE ParseFail
      [] tok = "[" ->
            IF Tok(t, i + 1) = "]" THEN ParsedAt(JArr(<<>>), i + 2)
            ELSE ParseElems(t, i + 1, <<>>)
      [] tok = "{" ->
            IF Tok(t, i + 1) = "}" THEN ParsedAt(JObj(<<>>), i + 2)
            ELSE ParseMembers(t, i + 1, <<>>)
      [] OTHER -> ParseFail
ParseElems(t, i, acc) ==
    LET r == ParseValue(t, i) IN
    IF ~r.ok THEN ParseFail
    ELSE IF Tok(t, r.next) = "," THEN ParseElems(t, r.next + 1, Append(acc, r.value))
    ELSE IF Tok(t, r.next) = "]" THEN ParsedAt(JArr(Append(acc, r.value)), r.next + 1)
    ELSE ParseFail
ParseMembers(t, i, acc) ==
    IF ~(/\ Tok(t, i) = "\""
         /\ Tok(t, i + 1) \notin (Punctuation \cup {"<eof>"})
         /\ Tok(t, i + 2) = "\""
         /\ Tok(t, i + 3) = ":")
    THEN ParseFail
    ELSE LET r == ParseValue(t, i + 4) IN
         IF ~r.ok THEN ParseFail
         ELSE IF Tok(t, r.next) = ","
              THEN ParseMembers(t, r.next + 1, Append(acc, <<t[i + 1], r.value>>))
         ELSE IF Tok(t, r.next) = "}"
              THEN ParsedAt(JObj(Append(acc, <<t[i + 1], r.value>>)), r.next + 1)
         ELSE ParseFail

\* A variant of response.json() that empties the arrays nested in an array.
ParseJSONFlattened(t) ==
    LET r == ParseValue(t, 1) IN
    IF r.ok /\ r.next = Len(t) + 1
    THEN [ok |-> TRUE,
          value |-> IF r.value[1] = "arr"
                    THEN JArr([i \in 1..Len(r.value[2]) |->
                                 IF r.value[2][i][1] = "arr" THEN JArr(<<>>)
                                 ELSE r.value[2][i]])
                    ELSE r.value]
    ELSE [ok |-> FALSE, value |-> JNull]

\* A variant of response.json() that yields null for a text it cannot parse.
ParseJSONLenient(t) ==
    LET r == ParseValue(t, 1) IN
    IF r.ok /\ r.next = Len(t) + 1 THEN [ok |-> TRUE, value |-> r.value]
    ELSE [ok |-> TRUE, value |-> JNull]

\* response.json(): the whole text must be one JSON value.
ParseJSON(t) ==
    LET r == ParseValue(t, 1) IN
    IF r.ok /\ r.next = Len(t) + 1 THEN [ok |-> TRUE, value |-> r.value]
    ELSE [ok |-> FALSE, value |-> JNull]

(***************************************************************************)
(* JavaScript value helpers used by the client and the handler.            *)
(***************************************************************************)
\* obj.key: the member's value, or undefined when the object has none.
Get(obj, key) ==
    IF obj[1] = "obj" /\ \E i \in 1..Len(obj[2]) : obj[2][i][1] = key
    THEN obj[2][CHOOSE i \in 1..Len(obj[2]) : obj[2][i][1] = key][2]
    ELSE JUndefined

\* {...obj, key: value}: replaces the member in place, or appends it.
ObjSet(obj, key, value) ==
    IF \E i \in 1..Len(obj[2]) : obj[2][i][1] = key
    THEN JObj([i \in 1..Len(obj[2]) |->
                 IF obj[2][i][1] = key THEN <<key, value>> ELSE obj[2][i]])
    ELSE JObj(Append(obj[2], <<key, value>>))

\* Truthiness: undefined, null, false, 0 and "" are falsy.
Truthy(v) ==
    CASE v[1] \in {"undefined", "null", "false"} -> FALSE
      [] v[1] = "num" -> v[2] # 0
      [] v[1] = "str" -> v[2] # ""
      [] OTHER -> TRUE

\* a ?? b
Nullish(v) == v[1] \in {"undefined", "null"}

\* String(v), as a template literal `${v}` converts a value to text.
RECURSIVE ToStr(_), JoinStr(_, _)
ToStr(v) ==
    CASE v[1] = "num" -> <<ToString(v[2])>>
      [] v[1] = "str" -> <<v[2]>>
      [] v[1] = "arr" -> JoinStr(v[2], 1)
      [] v[1] = "obj" -> <<"[object Object]">>
      [] OTHER -> <<v[1]>>
JoinStr(elems, i) ==
    IF i > Len(elems) THEN <<>>
    ELSE (IF i > 1 THEN <<",">> ELSE <<>>)
         \o (IF Nullish(elems[i]) THEN <<>> ELSE ToStr(elems[i]))
         \o JoinStr(elems, i + 1)

\* encodeURIComponent, symbol by symbol: a space becomes %20.
EncodeURIComponent(text) ==
    [i \in 1..Len(text) |-> IF text[i] = "a b" THEN "a%20b" ELSE text[i]]

\* URLSearchParams.toString(): name=value pairs joined by &, a space becomes +.
FormEncode(text) ==
    [i \in 1..Len(text) |-> IF text[i] = "a b" THEN "a+b" ELSE text[i]]
RECURSIVE ParamsToString(_, _)
ParamsToString(params, i) ==
    IF i > Len(params) THEN <<>>
    ELSE (IF i > 1 THEN <<"&">> ELSE <<>>)
         \o <<params[i][1], "=">> \o FormEncode(params[i][2])
         \o ParamsToString(params, i + 1)

(***************************************************************************)
(* ArrClient: construction and the request executor.                       *)
(***************************************************************************)
Families == {"sonarr", "radarr", "lidarr", "readarr", "prowlarr"}

\* config.url.replace(/\/$/, ''): removes one trailing slash, if there is one.
StripTrailingSlash(u) ==
    IF Len(u) > 0 /\ u[Len(u)] = "/" THEN SubSeq(u, 1, Len(u) - 1) ELSE u

\* new ArrClient(serviceName, config); apiVersion is initialised to 'v3'.
ArrClient(serviceName, config) ==
    [serviceName |-> serviceName,
     config |-> [url |-> StripTrailingSlash(config.url), apiKey |-> config.apiKey],
     apiVersion |-> "v3"]

\* A variant of LidarrClient that keeps the base class's 'v3'.
LidarrClientV3(config) == ArrClient("lidarr", config)

SonarrClient(config) == ArrClient("sonarr", config)
RadarrClient(config) == ArrClient("radarr", config)
LidarrClient(config) == [ArrClient("lidarr", config) EXCEPT !.apiVersion = "v1"]
ReadarrClient(config) == [ArrClient("readarr", config) EXCEPT !.apiVersion = "v1"]
ProwlarrClient(config) == [ArrClient("prowlarr", config) EXCEPT !.apiVersion = "v1"]

NoHeaders == [h \in {} |-> <<>>]
\* RequestInit: {method, body, headers}; body <<>> stands for "no body".
Options(method, body) == [method |-> method, body |-> body, headers |-> NoHeaders]
GetOptions == Options("GET", <<>>)

\* The headers request() sends: its two defaults, overridden by options.headers.
RequestHeaders(client, options) ==
    LET defaults == [h \in {"Content-Type", "X-Api-Key"} |->
                        IF h = "Content-Type" THEN <<"application/json">>
                        ELSE client.config.apiKey]
    IN [h \in DOMAIN defaults \cup DOMAIN options.headers |->
           IF h \in DOMAIN options.headers THEN options.headers[h] ELSE defaults[h]]

\* A variant of the URL template that strips the base URL again on each request.
RequestURLStrippedAgain(client, endpoint) ==
    StripTrailingSlash(client.config.url) \o <<"/", "api", "/", client.apiVersion>> \o endpoint

\* `${this.config.url}/api/${this.apiVersion}${endpoint}`
RequestURL(client, endpoint) ==
    client.config.url \o <<"/", "api", "/", client.apiVersion>> \o endpoint

\* What request() hands to fetch.
FetchCall(client, endpoint, options) ==
    [url |-> RequestURL(client, endpoint),
     method |-> options.method,
     headers |-> RequestHeaders(client, options),
     body |-> options.body]

(***************************************************************************)
(* What the transport gives back: fetch rejects (a network error), or      *)
(* resolves with a response whose body may turn out unreadable.            *)
(***************************************************************************)
NetworkError(message) ==
    [kind |-> "neterr", status |-> 0, statusText |-> <<>>, body |-> <<>>,
     readable |-> FALSE, message |-> message]
HttpResponse(status, statusText, body, readable) ==
    [kind |-> "http", status |-> status, statusText |-> statusText, body |-> body,
     readable |-> readable, message |-> <<>>]

\* response.ok
ResponseOk(resp) == resp.status >= 200 /\ resp.status <= 299

NoError == [name |-> "", message |-> <<>>]
Resolved(value) == [ok |-> TRUE, value |-> value, error |-> NoError]
Rejected(name, message) ==
    [ok |-> FALSE, value |-> JUndefined, error |-> [name |-> name, message |-> message]]

\* A variant of the error message that leaves the body text out.
APIErrorMessageWithoutBody(client, resp, text) ==
    <<client.serviceName, " API error: ", ToString(resp.status), " ">> \o resp.statusText

\* `${serviceName} API error: ${status} ${statusText} - ${text}`
APIErrorMessage(client, resp, text) ==
    <<client.serviceName, " API error: ", ToString(resp.status), " ">>
    \o resp.statusText \o <<" - ">> \o text

\* The rest of request() once fetch has settled with resp.
RequestOutcome(client, resp) ==
    IF resp.kind = "neterr" THEN Rejected("TypeError", resp.message)
    ELSE IF ~ResponseOk(resp)
         THEN IF resp.readable
              THEN Rejected("Error", APIErrorMessage(client, resp, resp.body))
              ELSE Rejected("TypeError", <<"terminated">>)
    ELSE IF ~resp.readable THEN Rejected("TypeError", <<"terminated">>)
    ELSE LET parsed == ParseJSON(resp.body) IN
         IF parsed.ok THEN Resolved(parsed.value)
         ELSE Rejected("SyntaxError",
                       IF resp.body = <<>> THEN <<"Unexpected end of JSON input">>
                       ELSE <<"Unexpected token">>)

(***************************************************************************)
(* The client methods.  Each builds one endpoint (and, for a POST, a body) *)
(* from its arguments and hands it to request().  a is the argument list.  *)
(***************************************************************************)
BaseMethods ==
    {"getStatus", "getQueue", "getCalendar", "getRootFolders", "testConnection",
     "getQualityProfiles", "getQualityDefinitions", "getDownloadClients",
     "getNamingConfig", "getMediaManagement", "getHealth", "getTags",
     "getRootFoldersDetailed", "getIndexers"}
SonarrMethods ==
    {"getSeries", "getSeriesById", "searchSeries", "addSeries", "searchMissing",
     "getEpisodes", "searchEpisode"}
RadarrMethods == {"getMovies", "getMovieById", "searchMovies", "addMovie", "searchMovie"}
LidarrMethods ==
    {"getArtists", "getArtistById", "searchArtists", "addArtist", "getAlbums",
     "getAlbumById", "searchMissingAlbums", "searchAlbum", "getMetadataProfiles"}
ReadarrMethods ==
    {"getAuthors", "getAuthorById", "searchAuthors", "addAuthor", "getBooks",
     "getBookById", "searchMissingBooks", "searchBook", "getMetadataProfiles"}
ProwlarrMethods == {"testAllIndexers", "testIndexer", "getIndexerStats", "search"}

\* The public methods of the class of family f.
ClientMethods(f) ==
    BaseMethods \cup
    (CASE f = "sonarr" -> SonarrMethods
       [] f = "radarr" -> RadarrMethods
       [] f = "lidarr" -> LidarrMethods
       [] f = "readarr" -> ReadarrMethods
       [] f = "prowlarr" -> ProwlarrMethods)

Arg(a, i) == IF i <= Len(a) THEN a[i] ELSE JUndefined

\* A variant of getCalendar that writes the question mark whatever the parameters.
CalendarEndpointAlwaysQuery(start, end) ==
    <<"/", "calendar", "?">>
    \o ParamsToString((IF Truthy(start) THEN <<<<"start", ToStr(start)>>>> ELSE <<>>)
                       \o (IF Truthy(end) THEN <<<<"end", ToStr(end)>>>> ELSE <<>>), 1)

\* getCalendar(start, end), in ArrClient and as overridden by Lidarr and Readarr.
CalendarEndpoint(start, end) ==
    LET params == (IF Truthy(start) THEN <<<<"start", ToStr(start)>>>> ELSE <<>>)
                  \o (IF Truthy(end) THEN <<<<"end", ToStr(end)>>>> ELSE <<>>)
        text == ParamsToString(params, 1)
    IN <<"/", "calendar">> \o (IF text # <<>> THEN <<"?">> \o text ELSE <<>>)

\* A variant of the command body that also names the client that sent it.
CommandBodyWithSender(name, field, value) ==
    Stringify(JObj(<<<<"name", JStr(name)>>, <<field, value>>, <<"sender", JStr("mcp")>>>>))

\* The JSON body of a POST /command.
CommandBody(name, field, value) ==
    Stringify(JObj(<<<<"name", JStr(name)>>, <<field, value>>>>))

\* The body of addSeries/addMovie/addArtist/addAuthor.
AddBody(item, extra, optionName) ==
    LET withMonitored ==
            ObjSet(item, "monitored",
                   IF Nullish(Get(item, "monitored")) THEN JTrue ELSE Get(item, "monitored"))
        withExtra ==
            IF extra = "" THEN withMonitored
            ELSE ObjSet(withMonitored, extra,
                        IF Nullish(Get(item, extra)) THEN JTrue ELSE Get(item, extra))
    IN Stringify(ObjSet(withExtra, "addOptions", JObj(<<<<optionName, JTrue>>>>)))

Call(endpoint, options) == [endpoint |-> endpoint, options |-> options]
Post(body) == Options("POST", body)

\* The endpoint and options the method passes to request().  testConnection
\* makes its request through getStatus.
MethodCall(method, a) ==
    CASE method \in {"getStatus", "testConnection"} ->
            Call(<<"/", "system", "/", "status">>, GetOptions)
      [] method = "getQueue" ->
            Call(<<"/", "queue", "?", "includeUnknownSeriesItems", "=", "true", "&",
                   "includeUnknownMovieItems", "=", "true">>, GetOptions)
      [] method = "getCalendar" -> Call(CalendarEndpoint(Arg(a, 1), Arg(a, 2)), GetOptions)
      [] method \in {"getRootFolders", "getRootFoldersDetailed"} ->
            Call(<<"/", "rootfolder">>, GetOptions)
      [] method = "getQualityProfiles" -> Call(<<"/", "qualityprofile">>, GetOptions)
      [] method = "getQualityDefinitions" -> Call(<<"/", "qualitydefinition">>, GetOptions)
      [] method = "getDownloadClients" -> Call(<<"/", "downloadclient">>, GetOptions)
      [] method = "getNamingConfig" -> Call(<<"/", "config", "/", "naming">>, GetOptions)
      [] method = "getMediaManagement" ->
            Call(<<"/", "config", "/", "mediamanagement">>, GetOptions)
      [] method = "getHealth" -> Call(<<"/", "health">>, GetOptions)
      [] method = "getTags" -> Call(<<"/", "tag">>, GetOptions)
      [] method = "getIndexers" -> Call(<<"/", "indexer">>, GetOptions)
      \* SonarrClient
      [] method = "getSeries" -> Call(<<"/", "series">>, GetOptions)
      [] method = "getSeriesById" -> Call(<<"/", "series", "/">> \o ToStr(Arg(a, 1)), GetOptions)
      [] method = "searchSeries" ->
            Call(<<"/", "series", "/", "lookup", "?", "term", "=">>
                 \o EncodeURIComponent(ToStr(Arg(a, 1))), GetOptions)
      [] method = "addSeries" ->
            Call(<<"/", "series">>, Post(AddBody(Arg(a, 1), "seasonFolder", "searchForMissingEpisodes")))
      [] method = "searchMissing" ->
            Call(<<"/", "command">>, Post(CommandBody("SeriesSearch", "seriesId", Arg(a, 1))))
      [] method = "getEpisodes" ->
            Call(<<"/", "episode", "?", "seriesId", "=">> \o ToStr(Arg(a, 1))
                 \o (IF Arg(a, 2) # JUndefined
                     THEN <<"&", "seasonNumber", "=">> \o ToStr(Arg(a, 2)) ELSE <<>>),
                 GetOptions)
      [] method = "searchEpisode" ->
            Call(<<"/", "command">>, Post(CommandBody("EpisodeSearch", "episodeIds", Arg(a, 1))))
      \* RadarrClient
      [] method = "getMovies" -> Call(<<"/", "movie">>, GetOptions)
      [] method = "getMovieById" -> Call(<<"/", "movie", "/">> \o ToStr(Arg(a, 1)), GetOptions)
      [] method = "searchMovies" ->
            Call(<<"/", "movie", "/", "lookup", "?", "term", "=">>
                 \o EncodeURIComponent(ToStr(Arg(a, 1))), GetOptions)
      [] method = "addMovie" ->
            Call(<<"/", "movie">>, Post(AddBody(Arg(a, 1), "", "searchForMovie")))
      [] method = "searchMovie" ->
            Call(<<"/", "command">>,
                 Post(CommandBody("MoviesSearch", "movieIds", JArr(<<Arg(a, 1)>>))))
      \* LidarrClient
      [] method = "getArtists" -> Call(<<"/", "artist">>, GetOptions)
      [] method = "getArtistById" -> Call(<<"/", "artist", "/">> \o ToStr(Arg(a, 1)), GetOptions)
      [] method = "searchArtists" ->
            Call(<<"/", "artist", "/", "lookup", "?", "term", "=">>
                 \o EncodeURIComponent(ToStr(Arg(a, 1))), GetOptions)
      [] method = "addArtist" ->
            Call(<<"/", "artist">>, Post(AddBody(Arg(a, 1), "", "searchForMissingAlbums")))
      [] method = "getAlbums" ->
            Call(IF Truthy(Arg(a, 1))
                 THEN <<"/", "album", "?", "artistId", "=">> \o ToStr(Arg(a, 1))
                 ELSE <<"/", "album">>, GetOptions)
      [] method = "getAlbumById" -> Call(<<"/", "album", "/">> \o ToStr(Arg(a, 1)), GetOptions)
      [] method = "searchMissingAlbums" ->
            Call(<<"/", "command">>, Post(CommandBody("ArtistSearch", "artistId", Arg(a, 1))))
      [] method = "searchAlbum" ->
            Call(<<"/", "command">>,
                 Post(CommandBody("AlbumSearch", "albumIds", JArr(<<Arg(a, 1)>>))))
      [] method = "getMetadataProfiles" -> Call(<<"/", "metadataprofile">>, GetOptions)
      \* ReadarrClient
      [] method = "getAuthors" -> Call(<<"/", "author">>, GetOptions)
      [] method = "getAuthorById" -> Call(<<"/", "author", "/">> \o ToStr(Arg(a, 1)), GetOptions)
      [] method = "searchAuthors" ->
            Call(<<"/", "author", "/", "lookup", "?", "term", "=">>
                 \o EncodeURIComponent(ToStr(Arg(a, 1))), GetOptions)
      [] method = "addAuthor" ->
            Call(<<"/", "author">>, Post(AddBody(Arg(a, 1), "", "searchForMissingBooks")))
      [] method = "getBooks" ->
            Call(IF Truthy(Arg(a, 1))
                 THEN <<"/", "book", "?", "authorId", "=">> \o ToStr(Arg(a, 1))
                 ELSE <<"/", "book">>, GetOptions)
      [] method = "getBookById" -> Call(<<"/", "book", "/">> \o ToStr(Arg(a, 1)), GetOptions)
      [] method = "searchMissingBooks" ->
            Call(<<"/", "command">>, Post(CommandBody("AuthorSearch", "authorId", Arg(a, 1))))
      [] method = "searchBook" ->
            Call(<<"/", "command">>, Post(CommandBody("BookSearch", "bookIds", Arg(a, 1))))
      \* ProwlarrClient
      [] method = "testAllIndexers" -> Call(<<"/", "indexer", "/", "testall">>, Post(<<>>))
      [] method = "testIndexer" ->
            Call(<<"/", "indexer", "/">> \o ToStr(Arg(a, 1)) \o <<"/", "test">>, Post(<<>>))
      [] method = "getIndexerStats" -> Call(<<"/", "indexerstats">>, GetOptions)
      [] method = "search" ->
            Call(<<"/", "search", "?">>
                 \o ParamsToString(<<<<"query", ToStr(Arg(a, 1))>>>>
                                   \o (IF Arg(a, 2)[1] = "arr"
                                       THEN [i \in 1..Len(Arg(a, 2)[2]) |->
                                               <<"categories", ToStr(Arg(a, 2)[2][i])>>]
                                       ELSE <<>>), 1),
                 GetOptions)

\* What a method invocation hands to fetch.
MethodFetch(client, method, a) ==
    LET call == MethodCall(method, a) IN FetchCall(client, call.endpoint, call.options)

(***************************************************************************)
(* The server: configuration from the environment, the clients table and   *)
(* the tool-call handler.  A tool name is the pair <<prefix, rest>> of the *)
(* text prefix_rest, so that name.split('_')[0] is name[1].                *)
(***************************************************************************)
ServiceOrder == <<"sonarr", "radarr", "lidarr", "readarr", "prowlarr">>
DisplayName(f) ==
    CASE f = "sonarr" -> "Sonarr" [] f = "radarr" -> "Radarr" [] f = "lidarr" -> "Lidarr"
      [] f = "readarr" -> "Readarr" [] f = "prowlarr" -> "Prowlarr"

\* A variant of the filter that takes a service with a URL alone as configured.
ConfiguredServicesByURL(svc) ==
    SelectSeq(ServiceOrder, LAMBDA f : svc[f].url # <<>>)

\* services.filter(s => s.url && s.apiKey), in the order of the services array.
\* An unset variable and an empty one are both falsy: both are the empty text.
ConfiguredServices(svc) ==
    SelectSeq(ServiceOrder, LAMBDA f : svc[f].url # <<>> /\ svc[f].apiKey # <<>>)

NewClient(f, config) ==
    CASE f = "sonarr" -> SonarrClient(config)
      [] f = "radarr" -> RadarrClient(config)
      [] f = "lidarr" -> LidarrClient(config)
      [] f = "readarr" -> ReadarrClient(config)
      [] f = "prowlarr" -> ProwlarrClient(config)

\* The clients table built at startup: one client per configured service.
BuildClients(svc) ==
    LET configured == ConfiguredServices(svc) IN
    [f \in {configured[i] : i \in 1..Len(configured)} |->
        NewClient(f, [url |-> svc[f].url, apiKey |-> svc[f].apiKey])]

ConfigFamilies == {"sonarr", "radarr", "lidarr", "readarr"}
ConfigSuffixes ==
    {"get_quality_profiles", "get_health", "get_root_folders", "get_download_clients",
     "get_naming", "get_tags", "review_setup"}
ConfigTools == {<<f, s>> : f \in ConfigFamilies, s \in ConfigSuffixes}

\* A variant in which get_tags triggers a search instead of reading the tags.
ConfigMethodTriggering(suffix) ==
    CASE suffix = "get_quality_profiles" -> "getQualityProfiles"
      [] suffix = "get_health" -> "getHealth"
      [] suffix = "get_root_folders" -> "getRootFoldersDetailed"
      [] suffix = "get_download_clients" -> "getDownloadClients"
      [] suffix = "get_naming" -> "getNamingConfig"
      [] suffix = "get_tags" -> "searchMissing"

\* The config tools addConfigTools pushes, in order.
ConfigSuffixOrder ==
    <<"get_quality_profiles", "get_health", "get_root_folders", "get_download_clients",
      "get_naming", "get_tags", "review_setup">>

\* The tools pushed for family f when it has a client, in order.
FamilyToolOrder(f) ==
    CASE f = "sonarr" -> <<"get_series", "search", "get_queue", "get_calendar",
                           "get_episodes", "search_missing", "search_episode">>
      [] f = "radarr" -> <<"get_movies", "search", "get_queue", "get_calendar",
                           "search_movie">>
      [] f = "lidarr" -> <<"get_artists", "search", "get_queue", "get_albums",
                           "search_album", "search_missing", "get_calendar">>
      [] f = "readarr" -> <<"get_authors", "search", "get_queue", "get_books",
                            "search_book", "search_missing", "get_calendar">>
      [] f = "prowlarr" -> <<"get_indexers", "search", "test_indexers", "get_stats">>

\* The names f is given with each of rests, when f has a client in cl.
RECURSIVE PushedFor(_, _, _, _)
PushedFor(cl, order, rests, i) ==
    IF i > Len(order) THEN <<>>
    ELSE (IF order[i] \in DOMAIN cl /\ order[i] \in ConfigFamilies \cup {"prowlarr"}
             /\ rests[order[i]] # <<>>
          THEN [k \in 1..Len(rests[order[i]]) |-> <<order[i], rests[order[i]][k]>>]
          ELSE <<>>)
         \o PushedFor(cl, order, rests, i + 1)

\* A variant of TOOLS in which addConfigTools is called for prowlarr as well.
ToolListConfigForAll(cl) ==
    <<<<"arr", "status">>>>
    \o PushedFor(cl, ServiceOrder, [f \in Families |-> ConfigSuffixOrder], 1)
    \o PushedFor(cl, ServiceOrder, [f \in Families |-> FamilyToolOrder(f)], 1)
    \o <<<<"arr", "search_all">>>>

\* The TOOLS array once the module is loaded: arr_status, the config tools of
\* the configured services except prowlarr, the tools of each configured
\* service, arr_search_all.
ToolList(cl) ==
    <<<<"arr", "status">>>>
    \o PushedFor(cl, ServiceOrder,
                 [f \in Families |-> IF f = "prowlarr" THEN <<>> ELSE ConfigSuffixOrder], 1)
    \o PushedFor(cl, ServiceOrder, [f \in Families |-> FamilyToolOrder(f)], 1)
    \o <<<<"arr", "search_all">>>>

\* What startup writes with console.error when no service is configured.
NoServicesLines ==
    <<<<"Error: No *arr services configured. Set at least one pair of URL and API_KEY environment variables.">>,
      <<"Example: SONARR_URL and SONARR_API_KEY">>>>
\* What main() writes once the server is connected.
RECURSIVE JoinNames(_, _)
JoinNames(names, i) ==
    IF i > Len(names) THEN <<>>
    ELSE (IF i > 1 THEN <<", ">> ELSE <<>>) \o <<names[i]>> \o JoinNames(names, i + 1)
RunningLine(svc) ==
    <<"*arr MCP server running - configured services: ">>
    \o JoinNames(ConfiguredServices(svc), 1)

\* A variant of the startup check that lets the process live without services.
StartupNeverExits(svc) == <<>>

\* if (configuredServices.length === 0) { ...; process.exit(1) }
StartupExit(svc) == IF ConfiguredServices(svc) = <<>> THEN <<1>> ELSE <<>>

\* The client method behind a single-request config tool.
ConfigMethod(suffix) ==
    CASE suffix = "get_quality_profiles" -> "getQualityProfiles"
      [] suffix = "get_health" -> "getHealth"
      [] suffix = "get_root_folders" -> "getRootFoldersDetailed"
      [] suffix = "get_download_clients" -> "getDownloadClients"
      [] suffix = "get_naming" -> "getNamingConfig"
      [] suffix = "get_tags" -> "getTags"

\* The family tools with a case of their own: the method each calls and how it
\* reads its arguments ("none", "calendar:<default days>", "episodes", or the
\* name of the one field it reads).
Tool(family, rest, method, argKind) ==
    [name |-> <<family, rest>>, method |-> method, argKind |-> argKind]
FamilyTools ==
    {Tool("sonarr", "get_series", "getSeries", "none"),
     Tool("sonarr", "search", "searchSeries", "term"),
     Tool("sonarr", "get_queue", "getQueue", "none"),
     Tool("sonarr", "get_calendar", "getCalendar", "calendar:7"),
     Tool("sonarr", "get_episodes", "getEpisodes", "episodes"),
     Tool("sonarr", "search_missing", "searchMissing", "seriesId"),
     Tool("sonarr", "search_episode", "searchEpisode", "episodeIds"),
     Tool("radarr", "get_movies", "getMovies", "none"),
     Tool("radarr", "search", "searchMovies", "term"),
     Tool("radarr", "get_queue", "getQueue", "none"),
     Tool("radarr", "get_calendar", "getCalendar", "calendar:30"),
     Tool("radarr", "search_movie", "searchMovie", "movieId"),
     Tool("lidarr", "get_artists", "getArtists", "none"),
     Tool("lidarr", "search", "searchArtists", "term"),
     Tool("lidarr", "get_queue", "getQueue", "none"),
     Tool("lidarr", "get_albums", "getAlbums", "artistId"),
     Tool("lidarr", "search_album", "searchAlbum", "albumId"),
     Tool("lidarr", "search_missing", "searchMissingAlbums", "artistId"),
     Tool("lidarr", "get_calendar", "getCalendar", "calendar:30"),
     Tool("readarr", "get_authors", "getAuthors", "none"),
     Tool("readarr", "search", "searchAuthors", "term"),
     Tool("readarr", "get_queue", "getQueue", "none"),
     Tool("readarr", "get_books", "getBooks", "authorId"),
     Tool("readarr", "search_book", "searchBook", "bookIds"),
     Tool("readarr", "search_missing", "searchMissingBooks", "authorId"),
     Tool("readarr", "get_calendar", "getCalendar", "calendar:30"),
     Tool("prowlarr", "get_indexers", "getIndexers", "none"),
     Tool("prowlarr", "search", "search", "query"),
     Tool("prowlarr", "test_indexers", "testAllIndexers", "none"),
     Tool("prowlarr", "get_stats", "getIndexerStats", "none")}
FamilyToolNames == {t.name : t \in FamilyTools}
\* A variant of the handler whose prowlarr_test_indexers case tests a single
\* indexer with testIndexer instead of all with testAllIndexers.
FamilyToolTestingOne(name) ==
    IF name = <<"prowlarr", "test_indexers">>
    THEN Tool("prowlarr", "test_indexers", "testIndexer", "none")
    ELSE CHOOSE t \in FamilyTools : t.name = name

FamilyTool(name) == CHOOSE t \in FamilyTools : t.name = name

ArrStatus == <<"arr", "status">>
ArrSearchAll == <<"arr", "search_all">>
\* The names the handler's switch has a case for.
HandledNames == {ArrStatus, ArrSearchAll} \cup ConfigTools \cup FamilyToolNames

\* new Date().toISOString().split('T')[0] for day d of the month.
IsoDate(d) == JStr("2025-01-" \o (IF d < 10 THEN "0" ELSE "") \o ToString(d))

Thrown(message) == [ok |-> FALSE, a |-> <<>>, message |-> message]
ArgList(a) == [ok |-> TRUE, a |-> a, message |-> <<>>]
CannotRead(field) ==
    <<"Cannot read properties of undefined (reading '", field, "')">>

\* How a family tool's case turns the call's arguments into the method's.
ToolMethodArgs(tool, args, today) ==
    CASE tool.argKind = "none" -> ArgList(<<>>)
      [] tool.argKind \in {"calendar:7", "calendar:30"} ->
            LET given == IF Nullish(args) THEN JUndefined ELSE Get(args, "days")
                days == IF Truthy(given) THEN given[2]
                        ELSE IF tool.argKind = "calendar:7" THEN 7 ELSE 30
            IN ArgList(<<IsoDate(today), IsoDate(today + days)>>)
      [] tool.argKind = "episodes" ->
            IF Nullish(args)
            THEN Thrown(<<"Cannot destructure property 'seriesId' of 'args' as it is undefined.">>)
            ELSE ArgList(<<Get(args, "seriesId"), Get(args, "seasonNumber")>>)
      [] OTHER ->
            IF Nullish(args) THEN Thrown(CannotRead(tool.argKind))
            ELSE ArgList(<<Get(args, tool.argKind)>>)

(***************************************************************************)
(* The remote systems.  A resource answers a successful request with a     *)
(* document; the resources whose answer the server passes on unread        *)
(* (/calendar, /search) may answer any JSON value, every other resource    *)
(* answers the one well-shaped document the server's reshaping expects     *)
(* (the server trusts the shape of what it reads).                         *)
(***************************************************************************)
Resource(endpoint) == endpoint[2]
Named(resource) == JObj(<<<<"id", JNum(1)>>, <<"name", JStr(resource)>>>>)
Document(endpoint) ==
    LET resource == Resource(endpoint) IN
    CASE resource = "system" ->
            JObj(<<<<"appName", JStr("app")>>, <<"version", JStr("4.0")>>>>)
      [] resource = "config" -> Named(endpoint[Len(endpoint)])
      [] resource = "queue" ->
            JObj(<<<<"records", JArr(<<>>)>>, <<"totalRecords", JNum(0)>>>>)
      [] resource = "command" -> JObj(<<<<"id", JNum(7)>>>>)
      [] resource = "indexerstats" -> JObj(<<<<"indexers", JArr(<<>>)>>>>)
      [] endpoint[Len(endpoint)] = "testall" ->
            JArr(<<JObj(<<<<"id", JNum(1)>>, <<"isValid", JTrue>>,
                          <<"validationFailures", JArr(<<>>)>>>>)>>)
      [] OTHER -> JArr(<<Named(resource)>>)
\* What /indexer/testall may answer: no result, the one valid result of the
\* document, or that one and an invalid result for an indexer the list lacks.
TestReports ==
    {JArr(<<>>),
     Document(<<"/", "indexer", "/", "testall">>),
     JArr(<<JObj(<<<<"id", JNum(1)>>, <<"isValid", JTrue>>,
                   <<"validationFailures", JArr(<<>>)>>>>),
            JObj(<<<<"id", JNum(2)>>, <<"isValid", JFalse>>,
                   <<"validationFailures",
                     JArr(<<JObj(<<<<"propertyName", JStr("")>>,
                                   <<"errorMessage", JStr("down")>>>>)>>)>>>>)>>)}
RemoteValues(endpoint) ==
    IF Resource(endpoint) \in {"calendar", "search"} THEN JsonValues
    ELSE IF endpoint[Len(endpoint)] = "testall" THEN TestReports
    ELSE {Document(endpoint)}

StatusText(status) ==
    CASE status = 200 -> <<"OK">>
      [] status = 299 -> <<>>
      [] status = 300 -> <<"Multiple Choices">>
      [] status = 401 -> <<"Unauthorized">>
OkStatuses(endpoint) == IF Resource(endpoint) \in {"calendar", "search"} THEN {200, 299} ELSE {200}
ErrorStatuses == {300, 401}
ErrorBodies == {<<>>, <<"Unauthorized">>}
BrokenBodies == {<<>>, <<"<html>">>}

\* Everything the transport may give back for a request to endpoint.
Responses(endpoint) ==
    {NetworkError(<<"fetch failed">>)}
    \cup {HttpResponse(st, StatusText(st), Stringify(v), TRUE) :
            st \in OkStatuses(endpoint), v \in RemoteValues(endpoint)}
    \cup {HttpResponse(200, StatusText(200), b, TRUE) : b \in BrokenBodies}
    \cup {HttpResponse(st, StatusText(st), b, TRUE) : st \in ErrorStatuses, b \in ErrorBodies}
    \cup {HttpResponse(st, StatusText(st), <<>>, FALSE) : st \in ErrorStatuses \cup {200}}

(***************************************************************************)
(* The state.                                                              *)
(***************************************************************************)
VARIABLES
    services,   \* the environment: family -> [url, apiKey]
    running,    \* FALSE when startup ended in process.exit(1)
    clients,    \* the clients table: configured family -> client
    tools,      \* the TOOLS array: the names of the registered tools, in order
    stderr,     \* the lines written with console.error
    exit,       \* <<>> while the process lives, <<status>> once it has exited
    calls       \* call slot -> the tool call (or method invocation) in it

vars == <<services, running, clients, tools, stderr, exit, calls>>

CallIds == {1}

NoResponse == [isError |-> FALSE, text |-> <<>>, content |-> <<"none">>]
\* {content: [{type: "text", text: JSON.stringify(content, null, 2)}]}
Success(content) == [isError |-> FALSE, text |-> <<>>, content |-> content]
\* A variant of the catch that reports a fixed text instead of the message.
ErrorResponseFixedText(message) ==
    [isError |-> TRUE, text |-> <<"Error: ", "Unknown error">>, content |-> JUndefined]

\* {content: [{type: "text", text: `Error: ${errorMessage}`}], isError: true}
ErrorResponse(message) ==
    [isError |-> TRUE, text |-> <<"Error: ">> \o message, content |-> JUndefined]

NoOutcome == [ok |-> FALSE, value |-> JUndefined, error |-> [name |-> "none", message |-> <<>>]]
NoResp == [kind |-> "none", status |-> 0, statusText |-> <<>>, body |-> <<>>,
           readable |-> FALSE, message |-> <<>>]
Unsettled == [resp |-> NoResp, outcome |-> NoOutcome]
NoCause == [idx |-> 0, resp |-> NoResp, outcome |-> NoOutcome]

\* A slot: pc is "idle", "waiting" (suspended at an await) or "done".
\*   issued     the fetch calls made for this call, in order, each with the client's
\*              family, the method and the endpoint it came from
\*   pending    the issued requests not yet settled
\*   settled    while the call is suspended, per issued request what the
\*              transport gave back and what request() made of it
\*   cause      once the call is done, the settled request it returned on
\*   abandoned  once the call is done, how many of its requests were still
\*              in flight when it returned
\*   results    the values the call holds: the Promise.all slots of review_setup,
\*              the test results of prowlarr_test_indexers
\*   acc        the object arr_status and arr_search_all fill entry by entry
\*   response   the handler's return value (kind "tool")
\*   result     the method's outcome (kind "method")
IdleCall ==
    [pc |-> "idle", kind |-> "", name |-> <<"", "">>, args |-> JUndefined, today |-> 0,
     stage |-> "", cursor |-> 0, issued |-> <<>>, pending |-> {}, settled |-> <<>>,
     cause |-> NoCause, abandoned |-> 0,
     results |-> <<>>, acc |-> JObj(<<>>), response |-> NoResponse, result |-> NoOutcome]

\* One client method invocation: request() builds the fetch call and suspends.
Issue(call, client, method, a) ==
    [call EXCEPT
        !.pc = "waiting",
        !.issued = Append(@, [family |-> client.serviceName, method |-> method,
                              endpoint |-> MethodCall(method, a).endpoint,
                              fetch |-> MethodFetch(client, method, a)]),
        !.settled = Append(@, Unsettled),
        !.pending = @ \cup {Len(call.issued) + 1}]

\* The call is over: what its frame held (the promises and their values) is
\* gone.  Nothing awaits the requests still in flight any more: they are
\* counted and followed no further.
Finish(call) ==
    [call EXCEPT !.pc = "done", !.results = <<>>, !.acc = JObj(<<>>), !.settled = <<>>,
                 !.pending = {}, !.abandoned = Cardinality(call.pending)]

\* The handler returns response.
Return(call, response) == [Finish(call) EXCEPT !.response = response]

\* The ten reads of review_setup, in the order of the Promise.all array.
ReviewMethods ==
    <<"getStatus", "getHealth", "getQualityProfiles", "getQualityDefinitions",
      "getDownloadClients", "getNamingConfig", "getMediaManagement",
      "getRootFoldersDetailed", "getTags", "getIndexers">>

RECURSIVE IssueAll(_, _, _, _)
IssueAll(call, client, methods, i) ==
    IF i > Len(methods) THEN call
    ELSE IssueAll(Issue(call, client, methods[i], <<>>), client, methods, i + 1)

\* The families arr_search_all searches, in the order of its four blocks.
SearchOrder == <<"sonarr", "radarr", "lidarr", "readarr">>
SearchMethod(f) ==
    CASE f = "sonarr" -> "searchSeries" [] f = "radarr" -> "searchMovies"
      [] f = "lidarr" -> "searchArtists" [] f = "readarr" -> "searchAuthors"

\* arr_search_all from block i on: the next configured family is searched, or,
\* when none is left, the results are returned.
RECURSIVE SearchFrom(_, _, _)
SearchFrom(call, cl, i) ==
    IF i > Len(SearchOrder) THEN Return(call, Success(call.acc))
    ELSE IF SearchOrder[i] \in DOMAIN cl
         THEN Issue([call EXCEPT !.cursor = i], cl[SearchOrder[i]],
                    SearchMethod(SearchOrder[i]), <<Get(call.args, "term")>>)
    ELSE SearchFrom(call, cl, i + 1)

\* A variant of the second loop that takes a service as unconfigured unless
\* its entry says connected: true.
AddUnconfiguredDroppingFailed(statuses, i) ==
    JObj([k \in 1..Len(ServiceOrder) |->
            <<ServiceOrder[k],
              IF Get(Get(statuses, ServiceOrder[k]), "connected") = JTrue
              THEN Get(statuses, ServiceOrder[k])
              ELSE JObj(<<<<"configured", JFalse>>>>)>>])

\* arr_status: the second loop gives every family without an entry
\* {configured: false}.
RECURSIVE AddUnconfigured(_, _)
AddUnconfigured(statuses, i) ==
    IF i > Len(ServiceOrder) THEN statuses
    ELSE AddUnconfigured(
            IF Truthy(Get(statuses, ServiceOrder[i])) THEN statuses
            ELSE ObjSet(statuses, ServiceOrder[i], JObj(<<<<"configured", JFalse>>>>)),
            i + 1)

\* A variant of arr_status that asks every service again as long as one of
\* them is not connected.
StatusFromRetrying(call, svc, cl, i) ==
    LET configured == ConfiguredServices(svc) IN
    IF i > Len(configured)
    THEN IF \E k \in 1..Len(configured) :
               Get(Get(call.acc, configured[k]), "connected") = JFalse
         THEN Issue([call EXCEPT !.cursor = 1], cl[configured[1]], "getStatus", <<>>)
         ELSE Return(call, Success(AddUnconfigured(call.acc, 1)))
    ELSE Issue([call EXCEPT !.cursor = i], cl[configured[i]], "getStatus", <<>>)

\* arr_status from the i-th configured service on.
StatusFrom(call, svc, cl, i) ==
    LET configured == ConfiguredServices(svc) IN
    IF i > Len(configured) THEN Return(call, Success(AddUnconfigured(call.acc, 1)))
    ELSE Issue([call EXCEPT !.cursor = i], cl[configured[i]], "getStatus", <<>>)

\* A variant of the configuration failure that does not say which service.
NotConfiguredUnnamed(who) == ErrorResponse(<<"Service", " not configured">>)

\* throw new Error(`${who} not configured`), as the handler's catch returns it.
NotConfigured(who) == ErrorResponse(<<who, " not configured">>)

\* {tools: TOOLS}, each tool by its name.
ListContent(list) ==
    JObj(<<<<"tools", JArr([i \in 1..Len(list) |->
                              JObj(<<<<"name", JStr(list[i][1] \o "_" \o list[i][2])>>>>)])>>>>)

\* The handler from its entry to its first await (or to its return).
StartTool(name, args, today, svc, cl) ==
    LET call == [IdleCall EXCEPT !.kind = "tool", !.name = name, !.args = args,
                                 !.today = today]
    IN
    IF name = ArrStatus THEN StatusFrom([call EXCEPT !.stage = "status"], svc, cl, 1)
    ELSE IF name \in ConfigTools THEN
        IF name[1] \notin DOMAIN cl
        THEN Return(call, NotConfigured(name[1]))
        ELSE IF name[2] = "review_setup"
             THEN IssueAll([call EXCEPT !.stage = "batch",
                                        !.results = [i \in 1..Len(ReviewMethods) |-> JUndefined]],
                           cl[name[1]], ReviewMethods, 1)
        ELSE Issue([call EXCEPT !.stage = "single"], cl[name[1]], ConfigMethod(name[2]), <<>>)
    ELSE IF name \in FamilyToolNames THEN
        LET tool == FamilyTool(name)
            ma == ToolMethodArgs(tool, args, today)
        IN
        IF name[1] \notin DOMAIN cl
        THEN Return(call, NotConfigured(DisplayName(name[1])))
        ELSE IF ~ma.ok THEN Return(call, ErrorResponse(ma.message))
        ELSE Issue([call EXCEPT !.stage = IF name[2] = "test_indexers" THEN "test" ELSE "single"],
                   cl[name[1]], tool.method, ma.a)
    ELSE IF name = ArrSearchAll THEN
        IF Nullish(args) THEN Return(call, ErrorResponse(CannotRead("term")))
        ELSE SearchFrom([call EXCEPT !.stage = "search"], cl, 1)
    ELSE Return(call, ErrorResponse(<<"Unknown tool: ", name[1], "_", name[2]>>))

(***************************************************************************)
(* Reshaping a method's value into the tool's text.  The field-by-field    *)
(* selection inside a list is not modelled: a reshaped list is the list    *)
(* itself with its count.  What is modelled is what can fail: reading a    *)
(* property of undefined or null, calling .map on a value that has none.   *)
(***************************************************************************)
Shaped(content) == [ok |-> TRUE, content |-> content, message |-> <<>>]
TypeError(message) == [ok |-> FALSE, content |-> JUndefined, message |-> message]

\* {count: list.length, items: list.map(x => ({id: x.id, ...}))}
Summary(list) ==
    IF Nullish(list) THEN TypeError(CannotRead("length"))
    ELSE IF list[1] # "arr" THEN TypeError(<<"map is not a function">>)
    ELSE IF \E i \in 1..Len(list[2]) : Nullish(list[2][i]) THEN TypeError(CannotRead("id"))
    ELSE Shaped(JObj(<<<<"count", JNum(Len(list[2]))>>, <<"items", list>>>>))

\* {success: true, message, commandId: result.id}
CommandContent(result, message) ==
    IF Nullish(result) THEN TypeError(CannotRead("id"))
    ELSE Shaped(JObj(<<<<"success", JTrue>>, <<"message", JStr(message)>>,
                       <<"commandId", Get(result, "id")>>>>))

\* The text of a tool that makes one request, from the value the method returned.
Shape(name, value, args) ==
    IF name \in ConfigTools THEN
        IF name[2] = "get_naming" THEN Shaped(value) ELSE Summary(value)
    ELSE LET method == FamilyTool(name).method IN
    CASE name[2] = "get_calendar" /\ name[1] \in {"sonarr", "radarr"} -> Shaped(value)
      [] method = "search" -> Shaped(value)
      [] method = "getQueue" ->
            IF Nullish(value) THEN TypeError(CannotRead("totalRecords"))
            ELSE LET items == Summary(Get(value, "records")) IN
                 IF ~items.ok THEN items
                 ELSE Shaped(JObj(<<<<"totalRecords", Get(value, "totalRecords")>>,
                                    <<"items", Get(value, "records")>>>>))
      [] method = "getIndexerStats" ->
            IF Nullish(value) THEN TypeError(CannotRead("indexers"))
            ELSE Summary(Get(value, "indexers"))
      [] method \in {"searchEpisode", "searchBook"} ->
            LET ids == Get(args, FamilyTool(name).argKind) IN
            IF Nullish(ids) THEN TypeError(CannotRead("length"))
            ELSE CommandContent(value,
                    "Search triggered for "
                    \o (IF ids[1] = "arr" THEN ToString(Len(ids[2])) ELSE "undefined")
                    \o " item(s)")
      [] method \in {"searchMissing", "searchMovie", "searchAlbum", "searchMissingAlbums",
                     "searchMissingBooks"} ->
            CommandContent(value, "Search triggered")
      [] OTHER -> Summary(value)

\* indexerMap.get(r.id) || 'Unknown'
\* A variant of the name lookup that takes the first listed indexer's name
\* whatever the id.
IndexerNameOfFirst(indexers, id) ==
    IF Len(indexers[2]) = 0 THEN JStr("Unknown") ELSE Get(indexers[2][1], "name")

IndexerName(indexers, id) ==
    LET hits == {i \in 1..Len(indexers[2]) : Get(indexers[2][i], "id") = id} IN
    IF hits = {} THEN JStr("Unknown")
    ELSE LET found == Get(indexers[2][CHOOSE i \in hits : \A j \in hits : j <= i], "name") IN
         IF Truthy(found) THEN found ELSE JStr("Unknown")

CountValid(results, valid) ==
    Cardinality({i \in 1..Len(results[2]) : Truthy(Get(results[2][i], "isValid")) = valid})

\* The text of prowlarr_test_indexers.
TestContent(results, indexers) ==
    IF Summary(results).ok /\ Summary(indexers).ok
       /\ \A i \in 1..Len(results[2]) : Get(results[2][i], "validationFailures")[1] = "arr"
    THEN Shaped(JObj(<<
            <<"count", JNum(Len(results[2]))>>,
            <<"indexers", JArr([i \in 1..Len(results[2]) |->
                JObj(<<<<"id", Get(results[2][i], "id")>>,
                       <<"name", IndexerName(indexers, Get(results[2][i], "id"))>>,
                       <<"isValid", Get(results[2][i], "isValid")>>,
                       <<"errors",
                         LET failures == Get(results[2][i], "validationFailures")[2] IN
                         JArr([k \in 1..Len(failures) |->
                                 Get(failures[k], "errorMessage")])>>>>)])>>,
            <<"healthy", JNum(CountValid(results, TRUE))>>,
            <<"failed", JNum(CountValid(results, FALSE))>>>>))
    ELSE TypeError(<<"map is not a function">>)

\* A variant of the report that writes metadataProfiles whatever its value
\* (null for Sonarr and Radarr).
ReviewContentSpreadingAlways(serviceName, r, metadataProfiles) ==
    LET status == r[1]  health == r[2]  qualityProfiles == r[3]
        qualityDefinitions == r[4]  downloadClients == r[5]  naming == r[6]
        mediaManagement == r[7]  rootFolders == r[8]  tags == r[9]  indexers == r[10]
    IN
    IF Nullish(status) THEN TypeError(CannotRead("version"))
    ELSE IF \E v \in {health, rootFolders, qualityProfiles, qualityDefinitions,
                      downloadClients, indexers, tags} : ~Summary(v).ok
    THEN TypeError(<<"map is not a function">>)
    ELSE IF Nullish(mediaManagement) THEN TypeError(CannotRead("recycleBin"))
    ELSE Shaped(JObj(
        <<<<"service", JStr(serviceName)>>,
          <<"version", Get(status, "version")>>,
          <<"appName", Get(status, "appName")>>,
          <<"platform", JObj(<<<<"os", Get(status, "osName")>>,
                               <<"isDocker", Get(status, "isDocker")>>>>)>>,
          <<"health", JObj(<<<<"issueCount", JNum(Len(health[2]))>>, <<"issues", health>>>>)>>,
          <<"storage", JObj(<<<<"rootFolders", rootFolders>>>>)>>,
          <<"qualityProfiles", qualityProfiles>>,
          <<"qualityDefinitions", qualityDefinitions>>,
          <<"downloadClients", downloadClients>>,
          <<"indexers", indexers>>,
          <<"naming", naming>>,
          <<"mediaManagement", mediaManagement>>,
          <<"tags", tags>>>>
        \o <<<<"metadataProfiles", metadataProfiles>>>>))

\* The review object of review_setup: r holds the ten batch values in the
\* order of ReviewMethods, metadataProfiles the eleventh value or null.
ReviewContent(serviceName, r, metadataProfiles) ==
    LET status == r[1]  health == r[2]  qualityProfiles == r[3]
        qualityDefinitions == r[4]  downloadClients == r[5]  naming == r[6]
        mediaManagement == r[7]  rootFolders == r[8]  tags == r[9]  indexers == r[10]
    IN
    IF Nullish(status) THEN TypeError(CannotRead("version"))
    ELSE IF \E v \in {health, rootFolders, qualityProfiles, qualityDefinitions,
                      downloadClients, indexers, tags} : ~Summary(v).ok
    THEN TypeError(<<"map is not a function">>)
    ELSE IF Nullish(mediaManagement) THEN TypeError(CannotRead("recycleBin"))
    ELSE Shaped(JObj(
        <<<<"service", JStr(serviceName)>>,
          <<"version", Get(status, "version")>>,
          <<"appName", Get(status, "appName")>>,
          <<"platform", JObj(<<<<"os", Get(status, "osName")>>,
                               <<"isDocker", Get(status, "isDocker")>>>>)>>,
          <<"health", JObj(<<<<"issueCount", JNum(Len(health[2]))>>, <<"issues", health>>>>)>>,
          <<"storage", JObj(<<<<"rootFolders", rootFolders>>>>)>>,
          <<"qualityProfiles", qualityProfiles>>,
          <<"qualityDefinitions", qualityDefinitions>>,
          <<"downloadClients", downloadClients>>,
          <<"indexers", indexers>>,
          <<"naming", naming>>,
          <<"mediaManagement", mediaManagement>>,
          <<"tags", tags>>>>
        \o (IF Truthy(metadataProfiles)
            THEN <<<<"metadataProfiles", metadataProfiles>>>> ELSE <<>>)))

\* A thrown TypeError or a finished text, as the handler returns it.
Render(call, shaped) ==
    Return(call, IF shaped.ok THEN Success(shaped.content) ELSE ErrorResponse(shaped.message))

\* The entry arr_status writes for one configured service.
StatusEntry(outcome) ==
    IF outcome.ok /\ ~Nullish(outcome.value)
    THEN JObj(<<<<"configured", JTrue>>, <<"connected", JTrue>>,
                <<"version", Get(outcome.value, "version")>>,
                <<"appName", Get(outcome.value, "appName")>>>>)
    ELSE JObj(<<<<"configured", JTrue>>, <<"connected", JFalse>>,
                <<"error", JText(IF outcome.ok THEN CannotRead("version")
                                 ELSE outcome.error.message)>>>>)

\* The entry arr_search_all writes for one searched family.
SearchEntry(outcome) ==
    IF outcome.ok /\ outcome.value[1] = "arr"
    THEN JObj(<<<<"count", JNum(Len(outcome.value[2]))>>,
                <<"results", JArr(SubSeq(outcome.value[2], 1,
                                         IF Len(outcome.value[2]) < 5
                                         THEN Len(outcome.value[2]) ELSE 5))>>>>)
    ELSE JObj(<<<<"error", JText(IF outcome.ok THEN <<"slice is not a function">>
                                 ELSE outcome.error.message)>>>>)

\* A variant in which every method refuses an answer of null.
MethodResultValidating(method, outcome) ==
    IF method = "testConnection" THEN Resolved(IF outcome.ok THEN JTrue ELSE JFalse)
    ELSE IF outcome.ok /\ outcome.value = JNull
         THEN Rejected("Error", <<"Empty response">>)
    ELSE outcome

\* A variant in which every method catches the failure of its request.
MethodResultAllCaught(method, outcome) ==
    IF method = "testConnection" THEN Resolved(IF outcome.ok THEN JTrue ELSE JFalse)
    ELSE IF outcome.ok THEN outcome ELSE Resolved(JNull)

\* What a directly invoked method gives its caller once its request has
\* settled: testConnection turns the outcome of getStatus into a boolean.
MethodResult(method, outcome) ==
    IF method = "testConnection" THEN Resolved(IF outcome.ok THEN JTrue ELSE JFalse)
    ELSE outcome

\* A variant of the batch that waits for every request and keeps null for a
\* failed one (Promise.allSettled-like).
PromiseAllSettled(results, pending, i, outcome) ==
    [state |-> IF pending \ {i} = {} THEN "fulfilled" ELSE "pending",
     results |-> [results EXCEPT ![i] = IF outcome.ok THEN outcome.value ELSE JNull]]

\* A variant of the batch that stores each value in the first free slot, that
\* is, in the order of arrival.
PromiseAllByArrival(results, pending, i, outcome) ==
    IF ~outcome.ok THEN [state |-> "rejected", results |-> results]
    ELSE [state |-> IF pending \ {i} = {} THEN "fulfilled" ELSE "pending",
          results |-> [results EXCEPT
                          ![CHOOSE k \in 1..Len(results) :
                               /\ results[k] = JUndefined
                               /\ \A j \in 1..(k - 1) : results[j] # JUndefined]
                             = outcome.value]]

\* A variant of the batch that is fulfilled by the first value (Promise.race-like).
PromiseRace(results, pending, i, outcome) ==
    IF ~outcome.ok THEN [state |-> "rejected", results |-> results]
    ELSE [state |-> "fulfilled", results |-> [results EXCEPT ![i] = outcome.value]]

\* Promise.all over the batch, when request i settles with outcome: rejected
\* with the first failure, fulfilled once every slot is filled, else pending.
\* A value is stored in the slot of its request.
PromiseAll(results, pending, i, outcome) ==
    IF ~outcome.ok THEN [state |-> "rejected", results |-> results]
    ELSE [state |-> IF pending \ {i} = {} THEN "fulfilled" ELSE "pending",
          results |-> [results EXCEPT ![i] = outcome.value]]

\* The handler (or the invoked method) from the settling of request i on, to
\* its next await or its return.
Resume(call, i, resp, svc, cl) ==
    LET client == cl[call.issued[i].family]
        outcome == RequestOutcome(client, resp)
        base == [call EXCEPT !.pending = @ \ {i},
                             !.settled[i] = [resp |-> resp, outcome |-> outcome]]
        failed == Return(base, ErrorResponse(outcome.error.message))
        next ==
    CASE call.stage = "method" ->
            [Finish(base) EXCEPT !.result = MethodResult(call.issued[i].method, outcome)]
      [] call.stage = "single" ->
            IF outcome.ok THEN Render(base, Shape(call.name, outcome.value, call.args))
            ELSE failed
      [] call.stage = "status" ->
            StatusFrom([base EXCEPT !.acc = ObjSet(@, call.issued[i].family, StatusEntry(outcome))],
                       svc, cl, call.cursor + 1)
      [] call.stage = "search" ->
            SearchFrom([base EXCEPT !.acc = ObjSet(@, call.issued[i].family, SearchEntry(outcome))],
                       cl, call.cursor + 1)
      [] call.stage = "batch" ->
            LET all == PromiseAll(call.results, call.pending, i, outcome)
                stored == [base EXCEPT !.results = all.results]
            IN
            IF all.state = "rejected" THEN failed
            ELSE IF all.state = "pending" THEN stored
            ELSE IF call.name[1] \in {"lidarr", "readarr"} /\ call.name[1] \in DOMAIN cl
                 THEN Issue([stored EXCEPT !.stage = "meta"],
                            cl[call.name[1]], "getMetadataProfiles", <<>>)
            ELSE Render(stored, ReviewContent(call.name[1], stored.results, JNull))
      [] call.stage = "meta" ->
            IF outcome.ok
            THEN Render(base, ReviewContent(call.name[1], call.results, outcome.value))
            ELSE failed
      [] call.stage = "test" ->
            IF outcome.ok
            THEN Issue([base EXCEPT !.stage = "test2", !.results = <<outcome.value>>],
                       client, "getIndexers", <<>>)
            ELSE failed
      [] call.stage = "test2" ->
            IF outcome.ok THEN Render(base, TestContent(call.results[1], outcome.value))
            ELSE failed
    IN
    IF next.pc = "done"
    THEN [next EXCEPT !.cause = [idx |-> i, resp |-> resp, outcome |-> outcome]]
    ELSE next

(***************************************************************************)
(* What the host may ask for.                                              *)
(***************************************************************************)
\* Names no case of the switch matches.
UnknownNames ==
    {<<"prowlarr", "get_health">>, <<"sonarr", "add_series">>, <<"arr", "restart">>,
     <<"trash", "list_profiles">>}

FullArgs ==
    JObj(<<<<"term", JStr("a b")>>, <<"query", JStr("x")>>, <<"days", JNum(5)>>,
           <<"seriesId", JNum(3)>>, <<"seasonNumber", JNum(1)>>,
           <<"episodeIds", JArr(<<JNum(1), JNum(2)>>)>>, <<"movieId", JNum(3)>>,
           <<"artistId", JNum(3)>>, <<"albumId", JNum(4)>>, <<"authorId", JNum(3)>>,
           <<"bookIds", JArr(<<JNum(1)>>)>>>>)
ZeroArgs ==
    JObj(<<<<"term", JStr("")>>, <<"query", JStr("")>>, <<"days", JNum(0)>>,
           <<"seriesId", JNum(0)>>, <<"episodeIds", JArr(<<>>)>>, <<"movieId", JNum(0)>>,
           <<"artistId", JNum(0)>>, <<"albumId", JNum(0)>>, <<"authorId", JNum(0)>>,
           <<"bookIds", JArr(<<>>)>>>>)
ArgChoices == {JUndefined, JObj(<<>>), FullArgs, ZeroArgs}

\* The arguments tried with a tool: the tools that never read their arguments
\* are called without any.
ToolArgChoices(name) ==
    IF name = ArrSearchAll \/ (name \in FamilyToolNames /\ FamilyTool(name).argKind # "none")
    THEN ArgChoices ELSE {JUndefined}

\* The argument lists tried with a method called directly on a client.
MethodArgChoices(method) ==
    CASE method = "getCalendar" -> {<<>>, <<IsoDate(1)>>, <<IsoDate(1), IsoDate(8)>>}
      [] method \in {"getAlbums", "getBooks"} -> {<<>>, <<JNum(0)>>, <<JNum(3)>>}
      [] method = "getEpisodes" -> {<<JNum(3)>>, <<JNum(3), JNum(0)>>}
      [] method \in {"searchEpisode", "searchBook"} -> {<<JArr(<<JNum(1), JNum(2)>>)>>}
      [] method \in {"searchSeries", "searchMovies", "searchArtists", "searchAuthors"} ->
            {<<JStr("a b")>>}
      [] method = "search" -> {<<JStr("a b")>>, <<JStr("x"), JArr(<<JNum(2), JNum(5)>>)>>}
      [] method \in {"addSeries", "addMovie", "addArtist", "addAuthor"} ->
            {<<JObj(<<<<"title", JStr("t")>>, <<"qualityProfileId", JNum(1)>>>>)>>,
             <<JObj(<<<<"monitored", JFalse>>, <<"title", JStr("t")>>>>)>>}
      [] method \in {"getSeriesById", "getMovieById", "getArtistById", "getAlbumById",
                     "getAuthorById", "getBookById", "searchMissing", "searchMovie",
                     "searchMissingAlbums", "searchAlbum", "searchMissingBooks",
                     "testIndexer"} -> {<<JNum(3)>>}
      [] OTHER -> {<<>>}

\* The day of the month the handler's clock shows.
Days == {1}

\* The base URL and the key each family is configured with, when it is.
BaseURL(f) ==
    CASE f = "sonarr" -> <<"http://tv:8989">>
      [] f = "radarr" -> <<"http://movies:7878", "/">>
      [] f = "lidarr" -> <<"http://music:8686", "/", "/">>
      [] f = "readarr" -> <<"http://host", "/", "books", "/">>
      [] f = "prowlarr" -> <<"http://host", "/", "prowlarr">>
ApiKey(f) == <<"key-", f>>

Environment(configured) ==
    [f \in Families |->
        IF f \in configured THEN [url |-> BaseURL(f), apiKey |-> ApiKey(f)]
        ELSE [url |-> <<>>, apiKey |-> <<>>]]

\* The sets of configured families tried: none, the indexer manager alone, and
\* two mixes in which every family is once configured and once not.
Configurations ==
    {{}, {"prowlarr"}, {"sonarr", "lidarr"}, {"radarr", "readarr", "prowlarr"}}

(***************************************************************************)
(* Init: the state once the module has been loaded.  With no configured    *)
(* service the process has exited before any client was made.              *)
(***************************************************************************)
Loaded(ids) ==
    /\ exit = StartupExit(services)
    /\ running = (exit = <<>>)
    /\ clients = IF running THEN BuildClients(services) ELSE [f \in {} |-> <<>>]
    /\ tools = IF running THEN ToolList(clients) ELSE <<>>
    /\ stderr = IF running THEN <<RunningLine(services)>> ELSE NoServicesLines
    /\ calls = [c \in ids |-> IdleCall]

Init ==
    /\ services \in {Environment(configured) : configured \in Configurations}
    /\ Loaded(CallIds)

\* The host sends a tools/list request: the handler returns the TOOLS array.
ListTools(c) ==
    /\ running
    /\ calls[c].pc = "idle"
    /\ calls' = [calls EXCEPT ![c] =
                    [IdleCall EXCEPT !.kind = "list", !.pc = "done",
                                     !.response = Success(ListContent(tools))]]
    /\ UNCHANGED <<services, running, clients, tools, stderr, exit>>

\* The host sends a tools/call request: the handler runs to its first await.
CallTool(c) ==
    /\ running
    /\ calls[c].pc = "idle"
    /\ \E name \in HandledNames \cup UnknownNames, today \in Days :
         \E args \in ToolArgChoices(name) :
            calls' = [calls EXCEPT ![c] = StartTool(name, args, today, services, clients)]
    /\ UNCHANGED <<services, running, clients, tools, stderr, exit>>

\* Code that uses the client classes directly invokes one public method.
CallMethod(c) ==
    /\ running
    /\ calls[c].pc = "idle"
    /\ \E f \in DOMAIN clients :
         \E method \in ClientMethods(f) :
            \E a \in MethodArgChoices(method) :
               calls' = [calls EXCEPT ![c] =
                            Issue([IdleCall EXCEPT !.kind = "method", !.name = <<f, method>>,
                                                   !.args = JArr(a), !.stage = "method"],
                                  clients[f], method, a)]
    /\ UNCHANGED <<services, running, clients, tools, stderr, exit>>

\* A variant in which the statuses object of arr_status is shared by the
\* invocations: an entry written for one call lands in the others in flight.
SettleShared(c) ==
    /\ calls[c].pc = "waiting"
    /\ \E i \in calls[c].pending :
         \E resp \in Responses(calls[c].issued[i].endpoint) :
            calls' = [d \in DOMAIN calls |->
                        IF d = c THEN Resume(calls[c], i, resp, services, clients)
                        ELSE IF calls[c].stage = "status" /\ calls[d].stage = "status"
                                /\ calls[d].pc = "waiting"
                        THEN [calls[d] EXCEPT !.acc =
                                ObjSet(@, calls[c].issued[i].family,
                                       StatusEntry(RequestOutcome(
                                           clients[calls[c].issued[i].family], resp)))]
                        ELSE calls[d]]
    /\ UNCHANGED <<services, running, clients, tools, stderr, exit>>

\* The transport settles one request in flight; the code awaiting it runs on.
Settle(c) ==
    /\ calls[c].pc = "waiting"
    /\ \E i \in calls[c].pending :
         \E resp \in Responses(calls[c].issued[i].endpoint) :
            calls' = [calls EXCEPT ![c] = Resume(calls[c], i, resp, services, clients)]
    /\ UNCHANGED <<services, running, clients, tools, stderr, exit>>

\* The host takes the response; the slot is free again.
Collect(c) ==
    /\ calls[c].pc = "done"
    /\ calls' = [calls EXCEPT ![c] = IdleCall]
    /\ UNCHANGED <<services, running, clients, tools, stderr, exit>>

Next ==
    \E c \in CallIds :
        ListTools(c) \/ CallTool(c) \/ CallMethod(c) \/ Settle(c) \/ Collect(c)

Spec == Init /\ [][Next]_vars

(***************************************************************************)
(* The server when every outbound request completes: a request in flight   *)
(* is eventually answered, with a response or with a transport error.  A   *)
(* request is answered with its document, an unparsable body, a 401 or a   *)
(* transport error; every tool is called, without arguments and with all.  *)
(***************************************************************************)
LiveResponses(endpoint) ==
    {NetworkError(<<"fetch failed">>),
     HttpResponse(200, StatusText(200), Stringify(Document(endpoint)), TRUE),
     HttpResponse(200, StatusText(200), <<>>, TRUE),
     HttpResponse(401, StatusText(401), <<"Unauthorized">>, TRUE)}

LiveInit ==
    /\ services = Environment({"sonarr", "lidarr", "prowlarr"})
    /\ Loaded(CallIds)

LiveCallTool(c) ==
    /\ running
    /\ calls[c].pc = "idle"
    /\ \E name \in HandledNames \cup UnknownNames, today \in Days :
         \E args \in {JUndefined, FullArgs} :
            calls' = [calls EXCEPT ![c] = StartTool(name, args, today, services, clients)]
    /\ UNCHANGED <<services, running, clients, tools, stderr, exit>>

LiveSettle(c) ==
    /\ calls[c].pc = "waiting"
    /\ \E i \in calls[c].pending :
         \E resp \in LiveResponses(calls[c].issued[i].endpoint) :
            calls' = [calls EXCEPT ![c] = Resume(calls[c], i, resp, services, clients)]
    /\ UNCHANGED <<services, running, clients, tools, stderr, exit>>

LiveNext == \E c \in CallIds : LiveCallTool(c) \/ LiveSettle(c) \/ Collect(c)

\* Weak fairness of answering, WF_vars(LiveSettle(c)), for every call: a call
\* that waits has a request in flight and answering it changes the call, so
\* ENABLED <<LiveSettle(c)>>_vars is calls[c].pc = "waiting", written out
\* here.
LiveSpec ==
    /\ LiveInit
    /\ [][LiveNext]_vars
    /\ \A c \in CallIds :
         \/ []<>(calls[c].pc # "waiting")
         \/ []<><<LiveSettle(c)>>_vars

(***************************************************************************)
(* Startup under every environment: each service has its URL and its key   *)
(* set or unset independently.  The calls made here are those the handler  *)
(* answers without a request to a remote service.                          *)
(***************************************************************************)
Settings == {"unset", "url", "key", "both"}
PartialEnvironment(setting) ==
    [f \in Families |->
        [url |-> IF setting[f] \in {"url", "both"} THEN BaseURL(f) ELSE <<>>,
         apiKey |-> IF setting[f] \in {"key", "both"} THEN ApiKey(f) ELSE <<>>]]

StartupInit ==
    /\ services \in {PartialEnvironment(setting) : setting \in [Families -> Settings]}
    /\ Loaded(CallIds)

\* A tools/call request the handler answers before any await.
CallOffline(c) ==
    /\ running
    /\ calls[c].pc = "idle"
    /\ \E name \in HandledNames \cup UnknownNames, today \in Days :
         /\ StartTool(name, JUndefined, today, services, clients).pc = "done"
         /\ calls' = [calls EXCEPT ![c] =
                         StartTool(name, JUndefined, today, services, clients)]
    /\ UNCHANGED <<services, running, clients, tools, stderr, exit>>

StartupNext == \E c \in CallIds : ListTools(c) \/ CallOffline(c) \/ Collect(c)

StartupSpec == StartupInit /\ [][StartupNext]_vars

(***************************************************************************)
(* Two invocations at a time: the host (or code using the clients) starts  *)
(* a second call while the first is in flight or has just returned.        *)
(***************************************************************************)
PairIds == {1, 2}
PairTools == {ArrStatus, <<"sonarr", "get_series">>, <<"radarr", "get_movies">>}
PairMethods == {<<"sonarr", "getSeries">>, <<"lidarr", "getTags">>}

PairInit ==
    /\ services = Environment({"sonarr", "lidarr"})
    /\ Loaded(PairIds)

PairCallTool(c) ==
    /\ running
    /\ calls[c].pc = "idle"
    /\ \E name \in PairTools, today \in Days :
         calls' = [calls EXCEPT ![c] = StartTool(name, JUndefined, today, services, clients)]
    /\ UNCHANGED <<services, running, clients, tools, stderr, exit>>

\* The method invocation as it starts: request() is entered and suspends.
StartMethod(name) ==
    Issue([IdleCall EXCEPT !.kind = "method", !.name = name, !.args = JArr(<<>>),
                           !.stage = "method"],
          clients[name[1]], name[2], <<>>)

\* A variant of the clients that keeps the last result of each method and
\* serves it to the next invocation without a request.
PairCallMethodCached(c) ==
    /\ running
    /\ calls[c].pc = "idle"
    /\ \E name \in PairMethods :
         LET had == {d \in DOMAIN calls : calls[d].pc = "done" /\ calls[d].kind = "method"
                                          /\ calls[d].name = name}
         IN calls' = [calls EXCEPT ![c] =
                IF had = {} THEN StartMethod(name)
                ELSE [IdleCall EXCEPT !.kind = "method", !.name = name,
                                      !.args = JArr(<<>>), !.stage = "method",
                                      !.pc = "done",
                                      !.result = calls[CHOOSE d \in had : TRUE].result]]
    /\ UNCHANGED <<services, running, clients, tools, stderr, exit>>

PairCallMethod(c) ==
    /\ running
    /\ calls[c].pc = "idle"
    /\ \E name \in PairMethods : calls' = [calls EXCEPT ![c] = StartMethod(name)]
    /\ UNCHANGED <<services, running, clients, tools, stderr, exit>>

PairNext ==
    \E c \in PairIds : PairCallTool(c) \/ PairCallMethod(c) \/ Settle(c) \/ Collect(c)

PairSpec == PairInit /\ [][PairNext]_vars

(***************************************************************************)
(* What the properties below speak about.                                  *)
(***************************************************************************)
\* The requests of call r that have settled, each with what the transport gave
\* back and what request() made of it.
Observations(r) ==
    {[req |-> r.issued[i], resp |-> r.settled[i].resp, outcome |-> r.settled[i].outcome] :
        i \in {j \in 1..Len(r.settled) : r.settled[j].resp.kind # "none"}}
    \cup (IF r.cause.idx # 0
          THEN {[req |-> r.issued[r.cause.idx], resp |-> r.cause.resp,
                 outcome |-> r.cause.outcome]}
          ELSE {})
AllObservations == UNION {Observations(calls[c]) : c \in CallIds}
AllIssued == UNION {{calls[c].issued[i] : i \in 1..Len(calls[c].issued)} : c \in CallIds}

\* The number of places where a slash follows a slash.
SlashPairs(text) == Cardinality({i \in 1..(Len(text) - 1) : text[i] = "/" /\ text[i + 1] = "/"})

\* The version prefix of each family.
VersionOf(f) == IF f \in {"sonarr", "radarr"} THEN "v3" ELSE "v1"

\* C1: a response whose status is outside 200-299 makes request() fail, and
\* when its body text was received the failure's message is the service name,
\* " API error: ", the status, the status text, " - " and the body text as
\* received (an empty body included).
C1_NonOkResponseFails ==
    \A o \in AllObservations :
        (o.resp.kind = "http" /\ (o.resp.status < 200 \/ o.resp.status > 299)) =>
            /\ ~o.outcome.ok
            /\ o.outcome.value = JUndefined
            /\ o.resp.readable =>
                 /\ o.outcome.error.name = "Error"
                 /\ o.outcome.error.message =
                        <<o.req.family, " API error: ", ToString(o.resp.status), " ">>
                        \o o.resp.statusText \o <<" - ">> \o o.resp.body
C1_Witness ==
    \E o \in AllObservations :
        /\ o.resp.status = 401 /\ o.resp.readable /\ o.resp.body = <<>>
        /\ o.outcome.error.message =
              <<o.req.family, " API error: ", "401", " ", "Unauthorized", " - ">>

\* C2: the URL of every request is the configured base URL with one trailing
\* slash removed (if it has one), then /api/, the client's version and the
\* endpoint, which begins with a slash; the client holds the base URL already
\* stripped and request() strips nothing more; when the stripped base URL does
\* not itself end in a slash, the URL has no pair of slashes besides those
\* inside the base URL.
C2_RequestURL ==
    /\ \A f \in DOMAIN clients :
          clients[f].config.url =
              (IF services[f].url[Len(services[f].url)] = "/"
               THEN SubSeq(services[f].url, 1, Len(services[f].url) - 1)
               ELSE services[f].url)
    /\ \A q \in AllIssued :
          /\ q.endpoint[1] = "/"
          /\ q.fetch.url = clients[q.family].config.url
                           \o <<"/", "api", "/", clients[q.family].apiVersion>> \o q.endpoint
          /\ clients[q.family].config.url[Len(clients[q.family].config.url)] # "/" =>
                 SlashPairs(q.fetch.url) = SlashPairs(clients[q.family].config.url)
C2_Witness ==
    \E q \in AllIssued :
        /\ q.family = "lidarr"
        /\ services["lidarr"].url = <<"http://music:8686", "/", "/">>
        /\ q.fetch.url = <<"http://music:8686", "/", "/", "api", "/", "v1", "/", "album">>

\* Each value the remote may answer with, beside its JSON text.
TextAndValue == {<<Stringify(v), v>> : v \in JsonValues}

\* C3: when the remote system answers with a status in 200-299 and the JSON
\* text of a value v, request() returns v itself, whatever the nesting of v.
C3_ParsedBodyUnchanged ==
    \A o \in AllObservations :
        (o.resp.kind = "http" /\ o.resp.status >= 200 /\ o.resp.status <= 299
         /\ o.resp.readable) =>
            /\ \A tv \in TextAndValue :
                  o.resp.body = tv[1] =>
                      o.outcome = [ok |-> TRUE, value |-> tv[2], error |-> NoError]
            /\ o.resp.body = Stringify(Document(o.req.endpoint)) =>
                  o.outcome = [ok |-> TRUE, value |-> Document(o.req.endpoint),
                               error |-> NoError]
C3_Witness ==
    \E o \in AllObservations :
        /\ o.resp.body = <<"{", "\"", "id", "\"", ":", "[", "1", "]", "}">>
        /\ o.outcome.ok
        /\ o.outcome.value = JObj(<<<<"id", JArr(<<JNum(1)>>)>>>>)

\* C4: every request carries X-Api-Key with the key the family was configured
\* with and Content-Type application/json, and is addressed under the version
\* prefix of its family (v3 for sonarr and radarr, v1 for the others); no step
\* changes a client's key, base URL or version.
C4_ClientsFixed ==
    ((clients' = clients) /\ (services' = services))
C4_SameAuthAndVersion ==
    /\ [](\A q \in AllIssued :
            /\ q.fetch.headers["X-Api-Key"] = services[q.family].apiKey
            /\ q.fetch.headers["Content-Type"] = <<"application/json">>
            /\ clients[q.family].apiVersion = VersionOf(q.family)
            /\ SubSeq(q.fetch.url, Len(clients[q.family].config.url) + 1,
                      Len(clients[q.family].config.url) + 4)
                   = <<"/", "api", "/", VersionOf(q.family)>>)
    /\ [][C4_ClientsFixed]_vars
C4_Witness ==
    \E c \in CallIds :
        /\ Len(calls[c].issued) = 2
        /\ calls[c].issued[1].family = "sonarr"
        /\ calls[c].issued[2].family = "lidarr"
        /\ calls[c].issued[2].fetch.headers["X-Api-Key"] = <<"key-", "lidarr">>

\* The tools named for a family: the config tools and the family tools.
IsFamilyTool(r) == r.kind = "tool" /\ r.name \in ConfigTools \cup FamilyToolNames

\* C5: a call of a tool named for a family that has no client is over at
\* once, with an error whose message names the family, and no request was
\* made for it.
C5_UnconfiguredFailsOffline ==
    \A c \in CallIds :
        (IsFamilyTool(calls[c]) /\ calls[c].name[1] \notin DOMAIN clients) =>
            /\ calls[c].pc = "done"
            /\ calls[c].response.isError
            /\ \E who \in {calls[c].name[1], DisplayName(calls[c].name[1])} :
                  calls[c].response.text = <<"Error: ", who, " not configured">>
            /\ calls[c].issued = <<>>
C5_Witness ==
    \E c \in CallIds :
        /\ calls[c].name = <<"radarr", "review_setup">>
        /\ "radarr" \notin DOMAIN clients
        /\ calls[c].response.text = <<"Error: ", "radarr", " not configured">>
        /\ calls[c].issued = <<>>

\* The calls of a tool / the direct invocations of a client method.
ToolCalls == {c \in CallIds : calls[c].kind = "tool"}
MethodCalls == {c \in CallIds : calls[c].kind = "method"}
\* The two tools that catch the failure of a request themselves.
CatchingTools == {ArrStatus, ArrSearchAll}
\* The entries written so far by a catching tool, or those it returned.
Entries(r) == IF r.pc = "done" THEN r.response.content ELSE r.acc

\* C6 as stated: whenever a request made for a tool call has failed, the call's
\* response has isError true and the text 'Error: ' followed by the failure's
\* message.
C6_EveryFailureIsAnErrorResponse ==
    \A c \in ToolCalls :
        (calls[c].pc = "done" /\ calls[c].cause.idx # 0 /\ ~calls[c].cause.outcome.ok) =>
            /\ calls[c].response.isError
            /\ calls[c].response.text = <<"Error: ">> \o calls[c].cause.outcome.error.message

\* C6: for every tool other than arr_status and arr_search_all, a request's
\* failure ends the call with isError true and the text 'Error: ' followed by
\* the failure's message, unchanged; arr_status and arr_search_all go on and
\* put the message into the entry of that service in a response that is no
\* error; every call that is over has a response: an error text beginning
\* with 'Error: ', or a content.
C6_FailurePropagation ==
    \A c \in ToolCalls :
        /\ calls[c].pc = "done" =>
              IF calls[c].response.isError
              THEN calls[c].response.text[1] = "Error: "
              ELSE calls[c].response.content \notin {JUndefined, NoResponse.content}
        /\ \A o \in Observations(calls[c]) :
              ~o.outcome.ok =>
                 IF calls[c].name \in CatchingTools
                 THEN /\ ~calls[c].response.isError
                      /\ Get(Get(Entries(calls[c]), o.req.family), "error")
                             = JText(o.outcome.error.message)
                 ELSE /\ calls[c].pc = "done"
                      /\ calls[c].response.isError
                      /\ calls[c].response.text = <<"Error: ">> \o o.outcome.error.message
C6_Witness ==
    \E c \in ToolCalls :
        /\ calls[c].name = <<"sonarr", "get_series">>
        /\ calls[c].pc = "done"
        /\ calls[c].cause.resp.kind = "neterr"
        /\ calls[c].response.isError
        /\ calls[c].response.text = <<"Error: ", "fetch failed">>

\* C7 as stated: an invoked client method makes exactly one request, and when
\* that request has failed the invocation is over with that failure, a
\* transport error with the transport's message.
C7_OneRequestFailureSurfaced ==
    \A c \in MethodCalls :
        /\ Len(calls[c].issued) = 1
        /\ (calls[c].pc = "done" /\ ~calls[c].cause.outcome.ok) =>
              /\ calls[c].result = calls[c].cause.outcome
              /\ calls[c].cause.resp.kind = "neterr" =>
                    calls[c].result.error.message = calls[c].cause.resp.message

\* C7: an invoked client method makes exactly one request and is over as soon
\* as that request settles; when the request has failed, the invocation fails
\* with that very failure (a transport error with the transport's message),
\* except testConnection, which returns false; and no tool call makes the
\* same request twice.
C7_OneRequestNoRetry ==
    /\ \A c \in MethodCalls :
          /\ Len(calls[c].issued) = 1
          /\ calls[c].issued[1].method = calls[c].name[2]
          /\ calls[c].pc = "done" => (calls[c].cause.idx = 1 /\ calls[c].abandoned = 0)
          /\ (calls[c].pc = "done" /\ ~calls[c].cause.outcome.ok) =>
                IF calls[c].name[2] = "testConnection"
                THEN calls[c].result = [ok |-> TRUE, value |-> JFalse, error |-> NoError]
                ELSE /\ calls[c].result = calls[c].cause.outcome
                     /\ calls[c].cause.resp.kind = "neterr" =>
                           calls[c].result.error.message = calls[c].cause.resp.message
    /\ \A c \in ToolCalls :
          \A i, j \in 1..Len(calls[c].issued) :
              i # j => calls[c].issued[i] # calls[c].issued[j]
C7_Witness ==
    \E c \in MethodCalls :
        /\ calls[c].name = <<"prowlarr", "getIndexers">>
        /\ calls[c].pc = "done"
        /\ Len(calls[c].issued) = 1
        /\ calls[c].cause.resp.kind = "neterr"
        /\ calls[c].result.error.message = <<"fetch failed">>

\* The calls of {service}_review_setup for a configured service.
ReviewCalls ==
    {c \in ToolCalls : calls[c].name \in ConfigTools /\ calls[c].name[2] = "review_setup"
                       /\ calls[c].name[1] \in DOMAIN clients}
\* The sections of the review that come from the ten batched reads.
BatchSections ==
    {"version", "appName", "platform", "health", "storage", "qualityProfiles",
     "qualityDefinitions", "downloadClients", "indexers", "naming", "mediaManagement",
     "tags"}

\* C8: in review_setup, as soon as one sub-request has failed the call is over
\* with an error response; a response that is no error holds every section of
\* the ten reads and, for lidarr and readarr, the metadata profiles too.
C8_ReviewAllOrNothing ==
    \A c \in ReviewCalls :
        /\ \A o \in Observations(calls[c]) :
              ~o.outcome.ok => (calls[c].pc = "done" /\ calls[c].response.isError)
        /\ (calls[c].pc = "done" /\ ~calls[c].response.isError) =>
              /\ calls[c].cause.outcome.ok
              /\ calls[c].abandoned = 0
              /\ \A k \in BatchSections : Get(calls[c].response.content, k) # JUndefined
              /\ calls[c].name[1] \in {"lidarr", "readarr"} =>
                    /\ Len(calls[c].issued) = Len(ReviewMethods) + 1
                    /\ Get(calls[c].response.content, "metadataProfiles") # JUndefined
C8_Witness ==
    \E c \in ReviewCalls :
        /\ calls[c].pc = "done"
        /\ calls[c].cause.idx = 6
        /\ calls[c].cause.resp.status = 401
        /\ calls[c].response.isError
        /\ calls[c].response.content = JUndefined

\* The review built from the answer to each of the ten reads, taken by the
\* position of the read in the batch.
ExpectedReview(r) ==
    ReviewContent(r.name[1],
                  [i \in 1..Len(ReviewMethods) |-> Document(r.issued[i].endpoint)],
                  IF Len(r.issued) > Len(ReviewMethods)
                  THEN Document(r.issued[Len(ReviewMethods) + 1].endpoint)
                  ELSE JNull).content

\* C9: review_setup has issued its ten reads, in the order of the batch, before
\* it takes any answer; each answer is kept in the slot of its own read; and
\* when all have succeeded the report is the one built from the answers by
\* position, whatever the order they arrived in.
C9_ReviewOrderIndependent ==
    \A c \in ReviewCalls :
        /\ Len(calls[c].issued) >= Len(ReviewMethods)
        /\ \A i \in 1..Len(ReviewMethods) : calls[c].issued[i].method = ReviewMethods[i]
        /\ (calls[c].pc = "waiting" /\ calls[c].stage = "batch") =>
              \A i \in 1..Len(ReviewMethods) :
                  calls[c].results[i] =
                      (IF i \in calls[c].pending THEN JUndefined
                       ELSE calls[c].settled[i].outcome.value)
        /\ (calls[c].pc = "done" /\ ~calls[c].response.isError) =>
              calls[c].response.content = ExpectedReview(calls[c])
C9_Witness ==
    \E c \in ReviewCalls :
        /\ calls[c].name[1] = "sonarr"
        /\ calls[c].pc = "done"
        /\ ~calls[c].response.isError
        /\ calls[c].cause.idx = 1
        /\ Get(calls[c].response.content, "tags") = Document(<<"/", "tag">>)

\* C10 as stated: a call that is over has left no request of its own
\* unanswered.
C10_ReturnsOnlyWhenAllAnswered ==
    \A c \in CallIds : calls[c].pc = "done" => calls[c].abandoned = 0

\* C10: a call is suspended as long as it awaits a request, and has no
\* response or result then; a call that is over while requests of its own are
\* unanswered is a review_setup whose batch was rejected by the failure of
\* one of the ten reads, and its response is that error; no call returns a
\* success while a request of its own is unanswered.
C10_NoReturnWhileAwaited ==
    \A c \in CallIds :
        /\ calls[c].pc = "waiting" =>
              /\ calls[c].pending # {}
              /\ calls[c].response = NoResponse
              /\ calls[c].result = NoOutcome
        /\ (calls[c].pc = "done" /\ calls[c].abandoned > 0) =>
              /\ c \in ReviewCalls
              /\ Len(calls[c].issued) = Len(ReviewMethods)
              /\ calls[c].abandoned < Len(ReviewMethods)
              /\ ~calls[c].cause.outcome.ok
              /\ calls[c].response.isError
              /\ calls[c].response.text = <<"Error: ">> \o calls[c].cause.outcome.error.message
C10_Witness ==
    \E c \in ReviewCalls :
        /\ calls[c].pc = "done"
        /\ calls[c].abandoned = 9
        /\ calls[c].cause.resp.kind = "neterr"
        /\ calls[c].response.isError

\* C12: getCalendar with both dates asks for /calendar?start=<start>&end=<end>
\* and nothing more, and without dates for /calendar alone; so it is for the
\* clients that inherit the method and for lidarr and readarr, which override
\* it; the calendar tools always pass both dates.
C12_CalendarQuery ==
    /\ \A c \in MethodCalls :
          calls[c].name[2] = "getCalendar" =>
             /\ Len(calls[c].args[2]) = 2 =>
                   calls[c].issued[1].endpoint =
                       <<"/", "calendar", "?", "start", "=", calls[c].args[2][1][2],
                         "&", "end", "=", calls[c].args[2][2][2]>>
             /\ Len(calls[c].args[2]) = 0 =>
                   calls[c].issued[1].endpoint = <<"/", "calendar">>
    /\ \A c \in ToolCalls :
          (calls[c].name[2] = "get_calendar" /\ calls[c].issued # <<>>) =>
             /\ Len(calls[c].issued[1].endpoint) = 10
             /\ SubSeq(calls[c].issued[1].endpoint, 1, 5) = <<"/", "calendar", "?", "start", "=">>
             /\ calls[c].issued[1].endpoint[6] = "2025-01-01"
             /\ SubSeq(calls[c].issued[1].endpoint, 7, 9) = <<"&", "end", "=">>
C12_Witness ==
    \E c \in MethodCalls :
        /\ calls[c].name = <<"readarr", "getCalendar">>
        /\ calls[c].issued[1].endpoint =
              <<"/", "calendar", "?", "start", "=", "2025-01-01", "&", "end", "=", "2025-01-08">>
        /\ calls[c].issued[1].fetch.url =
              <<"http://host", "/", "books", "/", "api", "/", "v1", "/", "calendar", "?",
                "start", "=", "2025-01-01", "&", "end", "=", "2025-01-08">>

\* The trigger-search methods: the command each names and the field it puts
\* the id (or the ids) under, and whether it wraps a single id in a list.
TriggerSearches ==
    {<<"searchMissing", "SeriesSearch", "seriesId", FALSE>>,
     <<"searchEpisode", "EpisodeSearch", "episodeIds", FALSE>>,
     <<"searchMovie", "MoviesSearch", "movieIds", TRUE>>,
     <<"searchAlbum", "AlbumSearch", "albumIds", TRUE>>,
     <<"searchMissingAlbums", "ArtistSearch", "artistId", FALSE>>,
     <<"searchBook", "BookSearch", "bookIds", FALSE>>,
     <<"searchMissingBooks", "AuthorSearch", "authorId", FALSE>>}
\* The JSON text of an id or of a list of ids.
RECURSIVE IdListText(_, _)
IdListText(ids, i) ==
    IF i > Len(ids) THEN <<>>
    ELSE (IF i > 1 THEN <<",">> ELSE <<>>) \o <<ToString(ids[i][2])>> \o IdListText(ids, i + 1)
IdText(id) == IF id[1] = "arr" THEN <<"[">> \o IdListText(id[2], 1) \o <<"]">>
              ELSE <<ToString(id[2])>>
\* The requests made by a trigger-search method, each with the id it was given.
TriggerRequests ==
    {[q |-> calls[c].issued[1], id |-> calls[c].args[2][1], call |-> calls[c]] :
        c \in {d \in MethodCalls : \E t \in TriggerSearches : t[1] = calls[d].name[2]}}
    \cup
    {[q |-> calls[c].issued[1],
      id |-> Get(calls[c].args, FamilyTool(calls[c].name).argKind), call |-> calls[c]] :
        c \in {d \in ToolCalls :
                  /\ calls[d].name \in FamilyToolNames
                  /\ calls[d].issued # <<>>
                  /\ \E t \in TriggerSearches : t[1] = calls[d].issued[1].method}}

\* C13: a trigger search given an id (or a list of ids) makes one POST to
\* /command whose body is {"name": <the command>, <the field>: <the id>},
\* nothing else; it makes no second request; the method returns what the
\* remote answered, and the tool's commandId is the id in that answer.
C13_TriggerSearch ==
    \A r \in TriggerRequests :
        \A t \in {u \in TriggerSearches : u[1] = r.q.method} :
            /\ r.q.endpoint = <<"/", "command">>
            /\ r.q.fetch.method = "POST"
            /\ Len(r.call.issued) = 1
            /\ r.id[1] \in {"num", "arr"} =>
                  r.q.fetch.body =
                      <<"{", "\"", "name", "\"", ":", "\"", t[2], "\"", ",",
                        "\"", t[3], "\"", ":">>
                      \o (IF t[4] THEN <<"[">> \o IdText(r.id) \o <<"]">> ELSE IdText(r.id))
                      \o <<"}">>
            /\ (r.call.pc = "done" /\ r.call.cause.outcome.ok) =>
                  /\ r.call.abandoned = 0
                  /\ r.call.kind = "method" => r.call.result.value = r.call.cause.outcome.value
                  /\ (r.call.kind = "tool" /\ ~r.call.response.isError) =>
                        Get(r.call.response.content, "commandId")
                            = Get(r.call.cause.outcome.value, "id")
C13_Witness ==
    \E r \in TriggerRequests :
        /\ r.call.name = <<"radarr", "search_movie">>
        /\ r.q.fetch.body =
              <<"{", "\"", "name", "\"", ":", "\"", "MoviesSearch", "\"", ",",
                "\"", "movieIds", "\"", ":", "[", "3", "]", "}">>
        /\ r.call.pc = "done"
        /\ Get(r.call.response.content, "commandId") = JNum(7)

\* The invocations of a client method that are over.
FinishedMethodCalls == {c \in MethodCalls : calls[c].pc = "done"}

\* C15 as stated: every client method fails exactly when its request has
\* failed, and with the failure of the request.
C15_MethodFailsAsRequest ==
    \A c \in FinishedMethodCalls :
        /\ calls[c].result.ok = calls[c].cause.outcome.ok
        /\ ~calls[c].cause.outcome.ok => calls[c].result.error = calls[c].cause.outcome.error

\* C15: every client method but testConnection ends exactly as its request
\* ended: with the request's failure when it failed, with the request's value,
\* untouched, when it succeeded; testConnection never fails: it returns true
\* when its request succeeded and false when it failed.
C15_MethodsAddNothing ==
    \A c \in FinishedMethodCalls :
        IF calls[c].name[2] = "testConnection"
        THEN calls[c].result =
                [ok |-> TRUE,
                 value |-> IF calls[c].cause.outcome.ok THEN JTrue ELSE JFalse,
                 error |-> NoError]
        ELSE calls[c].result = calls[c].cause.outcome
C15_Witness ==
    \E c \in FinishedMethodCalls :
        /\ calls[c].name = <<"sonarr", "getCalendar">>
        /\ calls[c].cause.resp.status = 200
        /\ calls[c].cause.resp.body = <<"null">>
        /\ calls[c].result = [ok |-> TRUE, value |-> JNull, error |-> NoError]

\* C16 as stated: when the status is outside 200-299 and the body cannot be
\* read, request() fails with the failure that carries the service name, the
\* status and the status text, with an empty body text.
C16_UnreadableBodyAsEmpty ==
    \A o \in AllObservations :
        (o.resp.kind = "http" /\ (o.resp.status < 200 \/ o.resp.status > 299)
         /\ ~o.resp.readable) =>
            /\ ~o.outcome.ok
            /\ o.outcome.error.message =
                  <<o.req.family, " API error: ", ToString(o.resp.status), " ">>
                  \o o.resp.statusText \o <<" - ">>
\* What happens instead: the failure of reading the body is the failure of
\* the request, and the status is lost.
C16_Witness ==
    \E o \in AllObservations :
        /\ o.resp.status = 401 /\ ~o.resp.readable
        /\ o.outcome = [ok |-> FALSE, value |-> JUndefined,
                        error |-> [name |-> "TypeError", message |-> <<"terminated">>]]

\* The settled requests answered with a status in 200-299 and a body that is
\* no JSON text.
UnparsedObservations(r) ==
    {o \in Observations(r) :
        /\ o.resp.kind = "http" /\ o.resp.status >= 200 /\ o.resp.status <= 299
        /\ o.resp.readable /\ o.resp.body \in BrokenBodies}

\* C17 as stated: when the body of a 2xx response is no JSON text, the client
\* method fails with a parse failure and the tool call returns an error
\* response.
C17_UnparsedBodyAlwaysFails ==
    \A c \in CallIds :
        \A o \in UnparsedObservations(calls[c]) :
            calls[c].pc = "done" =>
                IF calls[c].kind = "method"
                THEN ~calls[c].result.ok /\ calls[c].result.error.name = "SyntaxError"
                ELSE calls[c].response.isError

\* C17: when the body of a 2xx response is no JSON text (an empty body
\* included), request() fails with a parse failure; so does every client
\* method but testConnection, which returns false; every tool but arr_status
\* and arr_search_all returns 'Error: ' and the parser's message, and those two
\* put the message into the service's entry of a response that is no error.
C17_UnparsedBody ==
    \A c \in CallIds :
        \A o \in UnparsedObservations(calls[c]) :
            /\ ~o.outcome.ok
            /\ o.outcome.value = JUndefined
            /\ o.outcome.error.name = "SyntaxError"
            /\ calls[c].kind = "method" =>
                  IF calls[c].name[2] = "testConnection"
                  THEN calls[c].result.ok /\ calls[c].result.value = JFalse
                  ELSE calls[c].result = o.outcome
            /\ calls[c].kind = "tool" =>
                  IF calls[c].name \in CatchingTools
                  THEN /\ ~calls[c].response.isError
                       /\ Get(Get(Entries(calls[c]), o.req.family), "error")
                              = JText(o.outcome.error.message)
                  ELSE /\ calls[c].pc = "done"
                       /\ calls[c].response.isError
                       /\ calls[c].response.text = <<"Error: ">> \o o.outcome.error.message
C17_Witness ==
    \E c \in ToolCalls :
        /\ calls[c].name = <<"prowlarr", "get_indexers">>
        /\ calls[c].pc = "done"
        /\ calls[c].cause.resp.status = 200
        /\ calls[c].cause.resp.readable
        /\ calls[c].cause.resp.body = <<>>
        /\ calls[c].response.text = <<"Error: ", "Unexpected end of JSON input">>

\* C20: every request made for a configuration review tool (the six readers
\* and review_setup, of every service) is a GET without a body, whatever was
\* answered to the requests before it.
C20_ConfigToolsReadOnly ==
    \A c \in ToolCalls :
        calls[c].name \in ConfigTools =>
            \A i \in 1..Len(calls[c].issued) :
                /\ calls[c].issued[i].fetch.method = "GET"
                /\ calls[c].issued[i].fetch.body = <<>>
C20_Witness ==
    \E c \in ToolCalls :
        /\ calls[c].name = <<"readarr", "review_setup">>
        /\ Len(calls[c].issued) = 11
        /\ calls[c].issued[11].method = "getMetadataProfiles"
        /\ calls[c].issued[11].fetch.method = "GET"

\* The services whose URL and API key are both set in the environment.
BothSet == {f \in Families : services[f].url # <<>> /\ services[f].apiKey # <<>>}
\* The names in the TOOLS array.
Listed == {tools[i] : i \in 1..Len(tools)}
ListCalls == {c \in DOMAIN calls : calls[c].kind = "list"}

\* C18: a tool named for a service (its config tools and its own tools) is in
\* the TOOLS array, and in every answer to tools/list, exactly when both the
\* URL and the API key of that service are set; arr_status and arr_search_all
\* are listed by every running server, and nothing else is; when some service
\* has both values, the others being unset or half set makes the process
\* neither exit nor write anything but the running line, and the listing is
\* not an error.
C18_ListedIffConfigured ==
    /\ \A name \in ConfigTools \cup FamilyToolNames :
          name \in Listed <=> name[1] \in BothSet
    /\ running => Listed = {ArrStatus, ArrSearchAll}
                            \cup {name \in ConfigTools \cup FamilyToolNames :
                                     name[1] \in BothSet}
    /\ BothSet # {} =>
          /\ exit = <<>>
          /\ running
          /\ stderr = <<RunningLine(services)>>
          /\ DOMAIN clients = BothSet
    /\ \A c \in ListCalls :
          /\ calls[c].pc = "done"
          /\ ~calls[c].response.isError
          /\ calls[c].response.content = ListContent(tools)
          /\ Len(tools) = Cardinality(Listed)
C18_Witness ==
    /\ services["sonarr"].url # <<>> /\ services["sonarr"].apiKey = <<>>
    /\ services["radarr"].url = <<>> /\ services["radarr"].apiKey # <<>>
    /\ BothSet = {"lidarr"}
    /\ \E c \in ListCalls :
          /\ <<"lidarr", "get_artists">> \in Listed
          /\ <<"sonarr", "get_series">> \notin Listed
          /\ calls[c].response.content = ListContent(tools)

\* C19: when no service has both a URL and an API key, the process has exited
\* with status 1 after writing 'Error: No *arr services configured. ...' as
\* its first line, and it never gets further: the clients table is empty, the
\* TOOLS array is empty and no request of the host is ever taken up.
C19_ExitWithoutServices ==
    BothSet = {} =>
        /\ exit = <<1>>
        /\ ~running
        /\ stderr = NoServicesLines
        /\ stderr[1][1] = "Error: No *arr services configured. Set at least one pair of URL and API_KEY environment variables."
        /\ DOMAIN clients = {}
        /\ tools = <<>>
        /\ \A c \in DOMAIN calls : calls[c] = IdleCall
C19_Witness ==
    /\ BothSet = {}
    /\ services["sonarr"].url # <<>>
    /\ services["prowlarr"].apiKey # <<>>
    /\ exit = <<1>>
    /\ stderr = NoServicesLines

\* The tool call r as it is when it runs alone: from its entry to its first
\* request, and on from there.
Entered(r) == StartTool(r.name, r.args, r.today, services, clients)
\* r is where the same call, run alone against the responses r was given, is.
AsAlone(r) ==
    \/ r = Entered(r)
    \/ /\ Len(r.issued) = 1 /\ r.pc = "done"
       /\ r = Resume(Entered(r), 1, r.cause.resp, services, clients)
    \/ /\ Len(r.issued) = 2 /\ r.pc = "waiting"
       /\ r = Resume(Entered(r), 1, r.settled[1].resp, services, clients)
    \/ /\ Len(r.issued) = 2 /\ r.pc = "done"
       /\ \E first \in Responses(r.issued[1].endpoint) :
             r = Resume(Resume(Entered(r), 1, first, services, clients),
                        2, r.cause.resp, services, clients)
\* The step of slot c is a step of its call alone, and touches no other slot.
OwnStep(c) ==
    /\ \A d \in DOMAIN calls \ {c} : calls'[d] = calls[d]
    /\ CASE calls[c].pc = "idle" ->
               IF calls'[c].kind = "tool" THEN calls'[c] = Entered(calls'[c])
               ELSE calls'[c] = StartMethod(calls'[c].name)
          [] calls[c].pc = "waiting" ->
               \E i \in calls[c].pending :
                  \E resp \in Responses(calls[c].issued[i].endpoint) :
                     calls'[c] = Resume(calls[c], i, resp, services, clients)
          [] calls[c].pc = "done" -> calls'[c] = IdleCall

\* C11: with two calls in flight in any interleaving, every tool call is at
\* each moment where the same call run alone against the responses it was
\* given would be, its response included; every step advances one call from
\* its own state and its own response and leaves the other call as it was; and
\* no step changes the environment, the clients table (each client's URL, key,
\* version and service name) or the TOOLS array.
C11_NoInterference ==
    /\ [](\A c \in DOMAIN calls : calls[c].kind = "tool" => AsAlone(calls[c]))
    /\ [][/\ services' = services /\ clients' = clients /\ tools' = tools
          /\ \A c \in DOMAIN calls : calls'[c] # calls[c] => OwnStep(c)]_vars
C11_Witness ==
    \E c, d \in DOMAIN calls :
        /\ c # d
        /\ calls[c].name = ArrStatus /\ calls[d].name = ArrStatus
        /\ calls[c].pc = "done" /\ calls[d].pc = "waiting"
        /\ calls[d].cursor = 2
        /\ calls[d].settled[1].resp.kind = "neterr"
        /\ Get(Get(calls[c].response.content, "sonarr"), "connected") = JTrue
        /\ Get(Get(calls[d].acc, "sonarr"), "connected") = JFalse

\* C14: of two invocations of the same list/get method on the same client,
\* each has issued its own request, the same as the other's; each returns what
\* request() made of the answer to its own request, so both return the same
\* when the remote answered the same, and the second returns the new answer
\* when the remote answered differently.
C14_NoCache ==
    \A c, d \in DOMAIN calls :
        (/\ c # d
         /\ calls[c].kind = "method" /\ calls[d].kind = "method"
         /\ calls[c].name = calls[d].name
         /\ calls[c].pc = "done" /\ calls[d].pc # "idle") =>
            /\ Len(calls[c].issued) = 1 /\ Len(calls[d].issued) = 1
            /\ calls[c].issued[1].fetch = calls[d].issued[1].fetch
            /\ calls[c].result =
                   RequestOutcome(clients[calls[c].name[1]], calls[c].cause.resp)
            /\ (calls[d].pc = "done" /\ calls[d].cause.resp = calls[c].cause.resp) =>
                   calls[d].result = calls[c].result
            /\ (/\ calls[d].pc = "done"
                /\ calls[c].cause.resp.kind = "http" /\ calls[d].cause.resp.kind = "http"
                /\ calls[c].cause.resp.readable /\ calls[d].cause.resp.readable
                /\ calls[d].cause.resp.status # calls[c].cause.resp.status) =>
                   calls[d].result # calls[c].result
C14_Witness ==
    \E c, d \in DOMAIN calls :
        /\ c # d
        /\ calls[c].name = <<"lidarr", "getTags">> /\ calls[d].name = calls[c].name
        /\ calls[c].pc = "done" /\ calls[d].pc = "done"
        /\ calls[c].cause.resp.status = 200 /\ calls[c].result.ok
        /\ calls[d].cause.resp.status = 401 /\ ~calls[d].result.ok
        /\ Len(calls[c].issued) = 1 /\ Len(calls[d].issued) = 1

\* The services arr_search_all has a block for and that have a client.
Searchable == {f \in DOMAIN clients : \E i \in 1..Len(SearchOrder) : SearchOrder[i] = f}
SearchAllCalls == {c \in DOMAIN calls : calls[c].kind = "tool" /\ calls[c].name = ArrSearchAll}

\* C21 as stated: arr_search_all has a search request in flight to every
\* configured service before any of them has completed: while the call waits,
\* and when it has returned, every searchable configured service has been sent
\* its request.
C21_SearchesSimultaneously ==
    \A c \in SearchAllCalls :
        calls[c].pc \in {"waiting", "done"} =>
            {calls[c].issued[i].family : i \in 1..Len(calls[c].issued)} = Searchable
\* The second search is sent after the first has been answered.
C21_Witness ==
    \E c \in SearchAllCalls :
        /\ calls[c].pc = "waiting"
        /\ Len(calls[c].issued) = 2
        /\ calls[c].pending = {2}
        /\ calls[c].settled[1] # Unsettled
        /\ calls[c].issued[1].family = "sonarr"
        /\ calls[c].issued[2].family = "lidarr"

StatusCalls == {c \in DOMAIN calls : calls[c].kind = "tool" /\ calls[c].name = ArrStatus}
\* The entry of a configured service whose /system/status request ended in
\* outcome: connected true with the version and the application name read,
\* connected false with the message of the failure.
StatusOf(outcome) ==
    IF outcome.ok
    THEN JObj(<<<<"configured", JTrue>>, <<"connected", JTrue>>,
                <<"version", JStr("4.0")>>, <<"appName", JStr("app")>>>>)
    ELSE JObj(<<<<"configured", JTrue>>, <<"connected", JFalse>>,
                <<"error", JText(outcome.error.message)>>>>)

\* C22: arr_status asks the configured services, and only them, for
\* /system/status, in the order of the services array; the entry of each is
\* written from the outcome of its own request (connected true when it
\* succeeded, connected false with the message when it failed) and is never
\* changed afterwards; the call always returns a success response, whose
\* content has the five services, those without a client as
\* {configured: false}.
C22_StatusPerService ==
    /\ [](\A c \in StatusCalls :
            LET r == calls[c]
                configured == ConfiguredServices(services)
            IN
            /\ Len(r.issued) <= Len(configured)
            /\ \A i \in 1..Len(r.issued) :
                  /\ r.issued[i].family = configured[i]
                  /\ r.issued[i].fetch.method = "GET"
                  /\ r.issued[i].endpoint = <<"/", "system", "/", "status">>
            /\ r.pc = "waiting" =>
                  \A i \in 1..Len(r.issued) :
                     Get(r.acc, configured[i]) =
                        IF i \in r.pending THEN JUndefined
                        ELSE StatusOf(r.settled[i].outcome)
            /\ r.pc = "done" =>
                  /\ ~r.response.isError
                  /\ Len(r.issued) = Len(configured)
                  /\ r.abandoned = 0
                  /\ Len(r.response.content[2]) = Len(ServiceOrder)
                  /\ \A f \in Families :
                        IF f \in DOMAIN clients
                        THEN Get(Get(r.response.content, f), "configured") = JTrue
                        ELSE Get(r.response.content, f) = JObj(<<<<"configured", JFalse>>>>)
                  /\ Get(r.response.content, configured[Len(configured)])
                        = StatusOf(r.cause.outcome))
    /\ [][\A c \in StatusCalls :
            (calls[c].pc = "waiting" /\ calls'[c].pc # "idle") =>
                \A f \in DOMAIN clients :
                    Get(calls[c].acc, f) # JUndefined =>
                        Get(Entries(calls'[c]), f) = Get(calls[c].acc, f)]_vars
C22_Witness ==
    \E c \in StatusCalls :
        /\ calls[c].pc = "done"
        /\ DOMAIN clients = {"radarr", "readarr", "prowlarr"}
        /\ Get(Get(calls[c].response.content, "radarr"), "connected") = JFalse
        /\ Get(Get(calls[c].response.content, "readarr"), "connected") = JTrue
        /\ Get(Get(calls[c].response.content, "prowlarr"), "connected") = JFalse
        /\ Get(calls[c].response.content, "sonarr") = JObj(<<<<"configured", JFalse>>>>)
        /\ Len(calls[c].issued) = 3

\* The TRaSH Guides tools the README says work without any *arr configuration.
TrashTools ==
    {<<"trash", rest>> : rest \in {"list_profiles", "get_profile", "list_custom_formats",
                                    "get_naming", "get_quality_sizes"}}

\* C23 as stated: the server runs with no service configured, the five TRaSH
\* Guides tools are in the TOOLS array, and a call of one of them is answered
\* with a result.
C23_TrashToolsWithoutServices ==
    /\ running
    /\ TrashTools \subseteq Listed
    /\ \A c \in DOMAIN calls :
          (calls[c].kind = "tool" /\ calls[c].name \in TrashTools /\ calls[c].pc = "done") =>
              ~calls[c].response.isError
\* On a running server trash_list_profiles is not listed and its call is
\* answered 'Unknown tool'.
C23_Witness ==
    \E c \in DOMAIN calls :
        /\ running
        /\ calls[c].name = <<"trash", "list_profiles">>
        /\ calls[c].pc = "done"
        /\ calls[c].response.isError
        /\ calls[c].response.text = <<"Error: ", "Unknown tool: ", "trash", "_", "list_profiles">>
        /\ calls[c].name \notin Listed

MetadataFamilies == {"lidarr", "readarr"}
ReviewSetupCalls ==
    {c \in DOMAIN calls : calls[c].kind = "tool" /\ calls[c].name \in ConfigTools
                          /\ calls[c].name[2] = "review_setup"}

\* C24: a review_setup call issues the /metadataprofile request only for
\* Lidarr and Readarr, as its eleventh request, when the ten reads of the
\* batch have all been answered with success; for Sonarr and Radarr it issues
\* the ten reads and nothing more; a report has a metadataProfiles section,
\* holding what /metadataprofile answered, exactly when it is a report of
\* Lidarr or Readarr.
C24_MetadataProfiles ==
    \A c \in ReviewSetupCalls :
        LET r == calls[c] IN
        /\ \A i \in 1..Len(r.issued) :
              (r.issued[i].method = "getMetadataProfiles"
               \/ r.issued[i].endpoint = <<"/", "metadataprofile">>) =>
                  /\ i = Len(ReviewMethods) + 1
                  /\ r.name[1] \in MetadataFamilies
                  /\ r.issued[i].family = r.name[1]
        /\ r.name[1] \notin MetadataFamilies => Len(r.issued) <= Len(ReviewMethods)
        /\ (r.pc = "waiting" /\ Len(r.issued) > Len(ReviewMethods)) =>
              /\ r.pending = {Len(ReviewMethods) + 1}
              /\ \A j \in 1..Len(ReviewMethods) : r.settled[j].outcome.ok
        /\ (r.pc = "done" /\ Len(r.issued) > Len(ReviewMethods)) =>
              /\ r.cause.idx = Len(ReviewMethods) + 1
              /\ r.abandoned = 0
        /\ (r.pc = "done" /\ ~r.response.isError) =>
              /\ Get(r.response.content, "metadataProfiles") # JUndefined
                    <=> r.name[1] \in MetadataFamilies
              /\ r.name[1] \in MetadataFamilies =>
                    /\ Len(r.issued) = Len(ReviewMethods) + 1
                    /\ Get(r.response.content, "metadataProfiles") = r.cause.outcome.value
C24_Witness ==
    \E c \in ReviewSetupCalls :
        /\ calls[c].name[1] = "lidarr"
        /\ calls[c].pc = "done"
        /\ ~calls[c].response.isError
        /\ Get(calls[c].response.content, "metadataProfiles")
              = Document(<<"/", "metadataprofile">>)
        /\ calls[c].issued[11].endpoint = <<"/", "metadataprofile">>

CalendarCalls ==
    {c \in DOMAIN calls : calls[c].kind = "tool" /\ calls[c].name \in FamilyToolNames
                          /\ calls[c].name[2] = "get_calendar" /\ calls[c].issued # <<>>}
\* The days the caller gave, when it gave a number.
GivenDays(args) == IF Nullish(args) THEN JUndefined ELSE Get(args, "days")
DefaultDays(name) == IF name[1] = "sonarr" THEN 7 ELSE 30

\* C25 as stated: a calendar tool asks for the window from today to today +
\* days, where days is the number the caller gave, 0 included, and 7 (sonarr)
\* or 30 (radarr, lidarr, readarr) when the caller gave none.
C25_CalendarWindow ==
    \A c \in CalendarCalls :
        LET given == GivenDays(calls[c].args)
            days == IF given[1] = "num" THEN given[2] ELSE DefaultDays(calls[c].name)
        IN calls[c].issued[1].endpoint =
              <<"/", "calendar", "?", "start", "=", IsoDate(calls[c].today)[2],
                "&", "end", "=", IsoDate(calls[c].today + days)[2]>>
\* sonarr_get_calendar {days: 0} asks for the next seven days.
C25_Witness ==
    \E c \in CalendarCalls :
        /\ calls[c].name[1] = "sonarr"
        /\ GivenDays(calls[c].args) = JNum(0)
        /\ calls[c].today = 1
        /\ calls[c].issued[1].endpoint =
              <<"/", "calendar", "?", "start", "=", "2025-01-01",
                "&", "end", "=", "2025-01-08">>

\* The calls of lidarr_get_albums and readarr_get_books that reached their
\* request, each with the resource it reads and the argument naming the owner.
ListByOwner ==
    {<<"lidarr", "get_albums", "album", "artistId">>,
     <<"readarr", "get_books", "book", "authorId">>}
OwnerCalls(t) ==
    {c \in DOMAIN calls : calls[c].kind = "tool" /\ calls[c].name = <<t[1], t[2]>>
                          /\ calls[c].issued # <<>>}

\* C26 as stated: lidarr_get_albums {artistId: a} asks for /album?artistId=a
\* and readarr_get_books {authorId: a} for /book?authorId=a, for every number
\* a, 0 included; the unfiltered /album or /book is asked for only when no id
\* was given.
C26_FilteredByOwner ==
    \A t \in ListByOwner :
        \A c \in OwnerCalls(t) :
            LET id == Get(calls[c].args, t[4]) IN
            calls[c].issued[1].endpoint =
                IF id[1] = "num"
                THEN <<"/", t[3], "?", t[4], "=", ToString(id[2])>>
                ELSE <<"/", t[3]>>
\* lidarr_get_albums {artistId: 0} asks for every album.
C26_Witness ==
    \E c \in OwnerCalls(<<"lidarr", "get_albums", "album", "artistId">>) :
        /\ Get(calls[c].args, "artistId") = JNum(0)
        /\ calls[c].issued[1].endpoint = <<"/", "album">>
        /\ calls[c].issued[1].fetch.method = "GET"

TestCalls ==
    {c \in DOMAIN calls : calls[c].kind = "tool"
                          /\ calls[c].name = <<"prowlarr", "test_indexers">>}
\* The ids in the indexer list the call was answered with.
ListedIds(list) == {Get(list[2][i], "id") : i \in 1..Len(list[2])}

\* C27: prowlarr_test_indexers issues POST /indexer/testall first; it issues
\* GET /indexer second and last, when the first request has succeeded, and
\* nothing when it has failed; in its result healthy + failed = count, count
\* is the number of results reported, and every result whose id is not in the
\* indexer list has the name 'Unknown'.
C27_TestIndexers ==
    \A c \in TestCalls :
        LET r == calls[c] IN
        /\ Len(r.issued) <= 2
        /\ Len(r.issued) >= 1 =>
              /\ r.issued[1].endpoint = <<"/", "indexer", "/", "testall">>
              /\ r.issued[1].fetch.method = "POST"
        /\ Len(r.issued) = 2 =>
              /\ r.issued[2].endpoint = <<"/", "indexer">>
              /\ r.issued[2].fetch.method = "GET"
              /\ r.pc = "waiting" => (r.pending = {2} /\ r.settled[1].outcome.ok)
              /\ r.pc = "done" => r.cause.idx = 2
        /\ (r.pc = "done" /\ Len(r.issued) = 1) =>
              /\ r.cause.idx = 1
              /\ ~r.cause.outcome.ok
              /\ r.response.isError
        /\ (r.pc = "done" /\ ~r.response.isError) =>
              LET content == r.response.content
                  tested == Get(content, "indexers")[2]
              IN
              /\ Len(r.issued) = 2
              /\ Get(content, "healthy")[2] + Get(content, "failed")[2]
                    = Get(content, "count")[2]
              /\ Get(content, "count")[2] = Len(tested)
              /\ \A i \in 1..Len(tested) :
                    Get(tested[i], "id") \notin ListedIds(r.cause.outcome.value) =>
                        Get(tested[i], "name") = JStr("Unknown")
C27_Witness ==
    \E c \in TestCalls :
        /\ calls[c].pc = "done"
        /\ ~calls[c].response.isError
        /\ Get(calls[c].response.content, "count") = JNum(2)
        /\ Get(calls[c].response.content, "healthy") = JNum(1)
        /\ Get(calls[c].response.content, "failed") = JNum(1)
        /\ Get(Get(calls[c].response.content, "indexers")[2][1], "name") = JStr("indexer")
        /\ Get(Get(calls[c].response.content, "indexers")[2][2], "name") = JStr("Unknown")
        /\ Get(Get(calls[c].response.content, "indexers")[2][2], "errors") = JArr(<<JStr("down")>>)

\* The names in TOOLS when exactly the services of configured are configured.
ListedUnder(configured) ==
    LET list == ToolList(BuildClients(Environment(configured)))
    IN {list[i] : i \in 1..Len(list)}
\* Every name TOOLS can hold, over the combinations of configured services.
EveryListedName == UNION {ListedUnder(configured) : configured \in SUBSET Families}
UnknownToolText(name) == <<"Error: ", "Unknown tool: ", name[1], "_", name[2]>>

\* C28: under every combination of configured services each name in TOOLS is
\* a name the handler's switch has a case for; a call of such a name is never
\* answered 'Unknown tool'; a call of any other name returns at once the error
\* response 'Error: Unknown tool: <name>' and has issued no request.
C28_ListedToolsHandled ==
    /\ EveryListedName \subseteq HandledNames
    /\ Listed \subseteq HandledNames
    /\ \A c \in DOMAIN calls :
          calls[c].kind = "tool" =>
             IF calls[c].name \in HandledNames
             THEN calls[c].response.text # UnknownToolText(calls[c].name)
             ELSE /\ calls[c].name \notin Listed
                  /\ calls[c].pc = "done"
                  /\ calls[c].issued = <<>>
                  /\ calls[c].response.isError
                  /\ calls[c].response.text = UnknownToolText(calls[c].name)
C28_Witness ==
    \E c \in DOMAIN calls :
        /\ "prowlarr" \in DOMAIN clients
        /\ <<"prowlarr", "get_indexers">> \in Listed
        /\ calls[c].name = <<"prowlarr", "get_health">>
        /\ calls[c].pc = "done"
        /\ calls[c].issued = <<>>
        /\ calls[c].response.text = <<"Error: ", "Unknown tool: ", "prowlarr", "_", "get_health">>

\* The commands a trigger search may name, and the methods that write.
SearchCommands == {t[2] : t \in TriggerSearches}
WritingMethods == {"addSeries", "addMovie", "addArtist", "addAuthor", "testIndexer"}
AllToolCalls == {c \in DOMAIN calls : calls[c].kind = "tool"}

\* C29: whatever the tool name and the arguments, a request made for a tool
\* call is a GET, or a POST to /command whose body names one of the seven
\* search commands, or the POST to /indexer/testall without a body; no request
\* comes from addSeries, addMovie, addArtist, addAuthor or testIndexer.
C29_ToolsNeverWrite ==
    \A c \in AllToolCalls :
        \A i \in 1..Len(calls[c].issued) :
            LET q == calls[c].issued[i] IN
            /\ q.method \notin WritingMethods
            /\ q.fetch.method \in {"GET", "POST"}
            /\ q.fetch.method = "GET" => q.fetch.body = <<>>
            /\ q.fetch.method = "POST" =>
                  \/ /\ q.endpoint = <<"/", "command">>
                     /\ Len(q.fetch.body) >= 8
                     /\ SubSeq(q.fetch.body, 1, 6) = <<"{", "\"", "name", "\"", ":", "\"">>
                     /\ q.fetch.body[7] \in SearchCommands
                     /\ q.fetch.body[8] = "\""
                  \/ /\ q.endpoint = <<"/", "indexer", "/", "testall">>
                     /\ q.fetch.body = <<>>
C29_Witness ==
    \E c \in AllToolCalls :
        /\ calls[c].name = <<"sonarr", "search_episode">>
        /\ calls[c].args = ZeroArgs
        /\ calls[c].issued # <<>>
        /\ calls[c].issued[1].fetch.method = "POST"
        /\ calls[c].issued[1].endpoint = <<"/", "command">>
        /\ calls[c].issued[1].fetch.body[7] = "EpisodeSearch"

\* The most requests a call of the tool name makes, given the configured
\* services.
MostRequests(name) ==
    IF name = ArrStatus THEN Cardinality(DOMAIN clients)
    ELSE IF name = ArrSearchAll THEN Cardinality(Searchable)
    ELSE IF name \notin HandledNames \/ name[1] \notin DOMAIN clients THEN 0
    ELSE IF name[2] = "review_setup"
         THEN (IF name[1] \in MetadataFamilies THEN 11 ELSE 10)
    ELSE IF name[2] = "test_indexers" THEN 2
    ELSE 1

\* C30: when every request in flight is eventually answered, a tool call that
\* waits eventually returns; a call that has returned holds one response, a
\* success or an error, and nothing follows but its delivery; the number of
\* requests it has issued never exceeds a bound given by the tool and the
\* configured services (arr_status one per service, arr_search_all one per
\* service but prowlarr, review_setup ten or eleven, prowlarr_test_indexers
\* two, every other tool one, none when the service has no client); a call
\* that waits has a request in flight.
C30_EveryCallReturns ==
    /\ [](\A c \in AllToolCalls :
            /\ Len(calls[c].issued) <= MostRequests(calls[c].name)
            /\ calls[c].pc = "done" =>
                  /\ calls[c].response # NoResponse
                  /\ calls[c].pending = {}
            /\ calls[c].pc = "waiting" =>
                  /\ calls[c].response = NoResponse
                  /\ calls[c].pending # {})
    /\ \A c \in CallIds :
          (calls[c].kind = "tool" /\ calls[c].pc = "waiting") ~> (calls[c].pc = "done")
    /\ [][\A c \in CallIds : calls[c].pc = "done" => calls'[c] = IdleCall]_vars
C30_Witness ==
    \E c \in AllToolCalls :
        /\ calls[c].name = <<"lidarr", "review_setup">>
        /\ calls[c].pc = "done"
        /\ Len(calls[c].issued) = 11
        /\ calls[c].abandoned = 0
        /\ ~calls[c].response.isError

====
